---------------------------- MODULE Spec2Model ----------------------------
(***************************************************************************)
(* Model of the two-pass camera-trap ETL pipeline (data_processor.py) and  *)
(* of the relational schema it writes (db_setup.py).                       *)
(*                                                                         *)
(* A cell of the input is what pandas hands to the code: the float NaN, or *)
(* a character string.  Strings are sequences of one-character strings so  *)
(* that str.strip() and str.lower() are computed, not assumed.             *)
(***************************************************************************)
EXTENDS Integers, Sequences, FiniteSets, Bags, TLC

(* ------------------------------ bounds -------------------------------- *)
\* longest input file, in rows
MaxRows == 3
\* storage faults the environment may inject in one behaviour
MaxFaults == 1
\* invocations of the program in one behaviour (first run plus reruns)
MaxRuns == 2
\* rows per chunk (chunk_size, 1000 in the code)
ChunkSize == 2
\* burst threshold of a flush (sequence_batch_size, 5000 in the code)
SequenceBatchSize == 2
\* taxa between two periodic commits (500 in the code)
TaxaCommitEvery == 2
\* longest input file of BurstFiles, in rows
MaxBurstRows == 4
\* rows of one file whose Pass 1 try block raises
MaxRowErrors == 1
\* questions of a game (QUESTIONS_PER_GAME, 10 by default)
QuestionsPerGame == 2
\* submit_guess requests in flight at once
MaxRequests == 2
\* submit_guess requests one session receives while requests overlap
MaxSubmits == 3
\* start_game requests the server receives beyond SessionLimit
MaxArrivals == 4
\* add_score calls on one high_scores table
MaxAdds == 11
\* seconds that pass while scores are added
MaxDate == 2

(* ------------------------------ strings ------------------------------- *)
\* pandas' missing cell (float nan) and Python's None / SQL NULL
NaN == <<"float:nan">>
None == <<"NoneType:None">>

UpperChars == <<"A","B","C","D","E","F","G","H","I","J","K","L","M",
                "N","O","P","Q","R","S","T","U","V","W","X","Y","Z">>
LowerChars == <<"a","b","c","d","e","f","g","h","i","j","k","l","m",
                "n","o","p","q","r","s","t","u","v","w","x","y","z">>
Whitespace == {" ", "\t", "\n", "\r"}
Digits == <<"0","1","2","3","4","5","6","7","8","9">>

LowerChar(c) ==
    IF \E i \in 1..26 : UpperChars[i] = c
    THEN LowerChars[CHOOSE i \in 1..26 : UpperChars[i] = c]
    ELSE c

\* str.lower()
Lower(s) == [i \in 1..Len(s) |-> LowerChar(s[i])]

RECURSIVE LStrip(_)
LStrip(s) ==
    IF s # <<>> /\ Head(s) \in Whitespace THEN LStrip(Tail(s)) ELSE s

RECURSIVE RStrip(_)
RStrip(s) ==
    IF s # <<>> /\ s[Len(s)] \in Whitespace
    THEN RStrip(SubSeq(s, 1, Len(s) - 1))
    ELSE s

\* str.strip()
Strip(s) == RStrip(LStrip(s))

\* the string literals the code compares against
S_nan == <<"n","a","n">>
S_none == <<"n","o","n","e">>
S_null == <<"n","u","l","l">>
S_empty == <<"e","m","p","t","y">>

(* ------------------------- row classifier ----------------------------- *)
TAXONOMY_COLUMNS ==
    <<"kingdom", "phylum", "subphylum", "superclass", "class", "subclass",
      "infraclass", "superorder", "order", "suborder", "infraorder",
      "superfamily", "family", "subfamily", "tribe", "genus", "subgenus",
      "species", "subspecies", "variety">>

NumLevels == Len(TAXONOMY_COLUMNS)

\* row.get(column, '') on a row or dict: the default when the column is missing
Get(row, column, default) ==
    IF column \in DOMAIN row THEN row[column] ELSE default

safe_str(value) ==
    IF value = None \/ value = NaN THEN <<>> ELSE Strip(value)

\* the test without .lower(): the sentinel words in lower case only
IsPresent_CaseSensitive(value) ==
    value # <<>> /\ value \notin {<<>>, S_nan, S_none, S_null}

\* value and value.lower() not in ['', 'nan', 'none', 'null']
IsPresent(value) ==
    value # <<>> /\ Lower(value) \notin {<<>>, S_nan, S_none, S_null}

\* common_name and common_name.lower() not in ['', 'nan', 'none', 'null', 'empty']
IsPresentCommonName(value) ==
    value # <<>> /\ Lower(value) \notin {<<>>, S_nan, S_none, S_null, S_empty}

\* is_wildlife_row with the common name tested like a hierarchy field
is_wildlife_row_NoPlaceholder(row) ==
    \/ \E i \in 1..NumLevels :
          IsPresent(safe_str(Get(row, TAXONOMY_COLUMNS[i], <<>>)))
    \/ IsPresent(safe_str(Get(row, "common_name", <<>>)))

is_wildlife_row(row) ==
    \/ \E i \in 1..NumLevels :
          IsPresent(safe_str(Get(row, TAXONOMY_COLUMNS[i], <<>>)))
    \/ IsPresentCommonName(safe_str(Get(row, "common_name", <<>>)))

\* a column name held as a value of a record (a one-element tuple, so that it
\* compares with None)
LevelName(i) == <<TAXONOMY_COLUMNS[i]>>

\* the scan without reversed(): from kingdom on
find_most_specific_level_Forward(row) ==
    LET hits == {i \in 1..NumLevels :
                    IsPresent(safe_str(Get(row, TAXONOMY_COLUMNS[i], <<>>)))}
    IN  IF hits = {} THEN <<None, None>>
        ELSE LET top == CHOOSE i \in hits : \A j \in hits : i <= j
             IN  <<LevelName(top),
                   safe_str(Get(row, TAXONOMY_COLUMNS[top], <<>>))>>

find_most_specific_level(row) ==
    LET hits == {i \in 1..NumLevels :
                    IsPresent(safe_str(Get(row, TAXONOMY_COLUMNS[i], <<>>)))}
    IN  IF hits = {} THEN <<None, None>>
        ELSE LET top == CHOOSE i \in hits : \A j \in hits : j <= i
             IN  <<LevelName(top),
                   safe_str(Get(row, TAXONOMY_COLUMNS[top], <<>>))>>

\* create_taxon_key with the common name tested like a hierarchy field
create_taxon_key_NoPlaceholder(row) ==
    [i \in 1..(NumLevels + 1) |->
        LET value == safe_str(Get(row, IF i <= NumLevels
                                       THEN TAXONOMY_COLUMNS[i]
                                       ELSE "common_name", <<>>))
        IN  IF IsPresent(value) THEN value ELSE <<>>]

\* create_taxon_key with the components folded to lower case
create_taxon_key_CaseFolded(row) ==
    [i \in 1..(NumLevels + 1) |->
        IF i <= NumLevels
        THEN LET value == safe_str(Get(row, TAXONOMY_COLUMNS[i], <<>>))
             IN  IF IsPresent(value) THEN Lower(value) ELSE <<>>
        ELSE LET common_name == safe_str(Get(row, "common_name", <<>>))
             IN  IF IsPresentCommonName(common_name)
                 THEN Lower(common_name) ELSE <<>>]

create_taxon_key(row) ==
    [i \in 1..(NumLevels + 1) |->
        IF i <= NumLevels
        THEN LET value == safe_str(Get(row, TAXONOMY_COLUMNS[i], <<>>))
             IN  IF IsPresent(value) THEN value ELSE <<>>
        ELSE LET common_name == safe_str(Get(row, "common_name", <<>>))
             IN  IF IsPresentCommonName(common_name) THEN common_name ELSE <<>>]

(* ------------------------------ input --------------------------------- *)
CSV_COLUMNS ==
    {TAXONOMY_COLUMNS[i] : i \in 1..NumLevels} \cup
    {"common_name", "sequence_id", "location_id", "datetime", "image_id",
     "frame_num", "url_gcp", "url_aws", "url_azure"}

\* a row of the file as pandas delivers it: the cells of `cells`, NaN elsewhere
MkRow(cells) ==
    [c \in CSV_COLUMNS |-> IF c \in DOMAIN cells THEN cells[c] ELSE NaN]

\* The rows an input file is drawn from.  Cl and " Cl" normalise to one taxon
\* key, Pc and cl to two others; the fifth row is no wildlife row; the last
\* has a common name only and no burst; image A occurs in two bursts; frame
\* numbers are missing, numeric and unparseable.
RowPool ==
    { MkRow([species |-> <<"C","l">>, sequence_id |-> <<"1">>,
             location_id |-> <<"L","1">>, image_id |-> <<"A">>,
             frame_num |-> <<"2">>]),
      MkRow([species |-> <<" ","C","l">>, kingdom |-> <<"N","u","l","l">>,
             sequence_id |-> <<"1">>, location_id |-> <<"L","2">>,
             image_id |-> <<"B">>, frame_num |-> <<"1">>]),
      MkRow([species |-> <<"P","c">>, sequence_id |-> <<"1">>,
             image_id |-> <<"C">>, frame_num |-> <<"1">>]),
      MkRow([species |-> <<"c","l">>, sequence_id |-> <<"2">>,
             image_id |-> <<"A">>]),
      MkRow([kingdom |-> <<"n","a","n"," ">>,
             common_name |-> <<"E","m","p","t","y">>,
             sequence_id |-> <<"1">>, image_id |-> <<"E">>,
             frame_num |-> <<"1">>]),
      MkRow([species |-> <<"C","l">>, sequence_id |-> <<"1">>,
             image_id |-> <<"D">>, frame_num |-> <<"x">>]),
      MkRow([common_name |-> <<"f","o","x">>, image_id |-> <<"F">>,
             frame_num |-> <<"1">>]) }

Files == UNION {[1..n -> RowPool] : n \in 0..MaxRows}

\* Rows of one species in three bursts, burst "1" at two locations, and the
\* files of up to MaxBurstRows of them: enough bursts for several threshold
\* flushes and for a chunk that takes the buffer past the threshold.
BurstRows ==
    { MkRow([species |-> <<"C","l">>, sequence_id |-> <<"1">>,
             location_id |-> <<"L","1">>, datetime |-> <<"d","1">>,
             image_id |-> <<"A">>]),
      MkRow([species |-> <<"C","l">>, sequence_id |-> <<"1">>,
             location_id |-> <<"L","2">>, datetime |-> <<"d","2">>,
             image_id |-> <<"B">>]),
      MkRow([species |-> <<"C","l">>, sequence_id |-> <<"2">>,
             location_id |-> <<"L","2">>, image_id |-> <<"C">>]),
      MkRow([species |-> <<"C","l">>, sequence_id |-> <<"3">>,
             location_id |-> <<"L","1">>, image_id |-> <<"D">>]) }

BurstFiles == UNION {[1..n -> BurstRows] : n \in 1..MaxBurstRows}

\* Cells for the rows the classifier claims are about: missing cells, blank
\* cells, the sentinel words in spellings pandas does not turn into NaN
\* itself, the placeholder, and names with and without surrounding blanks.
KingdomCells ==
    { NaN, <<"N","u","l","l">>, <<"e","m","p","t","y">> }
SpeciesCells ==
    { NaN, <<" ">>, <<"N","O","N","E">>,
      <<"V","u","l","p","e","s"," ","v","u","l","p","e","s">>,
      <<" ","v","u","l","p","e","s"," ","V","u","l","p","e","s","\t">> }
SubspeciesCells ==
    { NaN, <<"n","a","n"," ">>, <<"c","r","u","c","i","g","e","r","a">> }
CommonNameCells ==
    { NaN, <<" ","n","U","l","l">>, <<"E","m","p","t","y"," ">>,
      <<"e","m","p","t","y">>, <<"r","e","d"," ","f","o","x">> }

\* The three rows of one burst with two species, as pandas delivers them
\* (str() of the integer cells included), and the files that hold the three
\* in any order.
S_CanisLatrans == <<"C","a","n","i","s"," ","l","a","t","r","a","n","s">>
S_PumaConcolor == <<"P","u","m","a"," ","c","o","n","c","o","l","o","r">>
S_1001 == <<"1","0","0","1">>

ScenarioRows ==
    << MkRow([sequence_id |-> S_1001, species |-> S_CanisLatrans,
              frame_num |-> <<"2">>, image_id |-> <<"A">>]),
       MkRow([sequence_id |-> S_1001, species |-> S_CanisLatrans,
              frame_num |-> <<"1">>, image_id |-> <<"B">>]),
       MkRow([sequence_id |-> S_1001, species |-> S_PumaConcolor,
              frame_num |-> <<"1">>, image_id |-> <<"C">>]) >>

ScenarioFiles ==
    {[i \in 1..3 |-> ScenarioRows[f[i]]] :
        f \in {g \in [1..3 -> 1..3] : {g[1], g[2], g[3]} = {1, 2, 3}}}

ClassifierRows ==
    { MkRow([kingdom |-> k, species |-> s, subspecies |-> ss,
             common_name |-> cn, sequence_id |-> <<"1">>, image_id |-> <<"A">>]) :
        k \in KingdomCells, s \in SpeciesCells, ss \in SubspeciesCells,
        cn \in CommonNameCells }

(* ------------------------- Python helpers ----------------------------- *)
IsDigit(c) == \E i \in 1..10 : Digits[i] = c
DigitValue(c) == (CHOOSE i \in 1..10 : Digits[i] = c) - 1

RECURSIVE DigitsValue(_)
DigitsValue(s) ==
    IF s = <<>> THEN 0
    ELSE 10 * DigitsValue(SubSeq(s, 1, Len(s) - 1)) + DigitValue(s[Len(s)])

\* int(s) accepts an optional sign followed by decimal digits
IsIntLiteral(s) ==
    LET body == IF s # <<>> /\ Head(s) \in {"+", "-"} THEN Tail(s) ELSE s
    IN  body # <<>> /\ \A i \in 1..Len(body) : IsDigit(body[i])

IntOf(s) ==
    IF Head(s) = "-" THEN 0 - DigitsValue(Tail(s))
    ELSE IF Head(s) = "+" THEN DigitsValue(Tail(s))
    ELSE DigitsValue(s)

\* int(safe_str(x.get('frame_num', '0')) or 0) raises ValueError
FrameRaises(row) ==
    LET s == safe_str(Get(row, "frame_num", <<"0">>))
    IN  s # <<>> /\ ~IsIntLiteral(s)

\* int(safe_str(x.get('frame_num', '0')) or 0)
FrameNum(row) ==
    LET s == safe_str(Get(row, "frame_num", <<"0">>))
    IN  IF s = <<>> THEN 0 ELSE IntOf(s)

\* safe_str(...) or None
OrNone(s) == IF s = <<>> THEN None ELSE s

\* the rows left in the order of the file
SortedByFrame_FileOrder(rows) == rows

\* sorted(rows, key=frame): a stable sort
RECURSIVE InsertByFrame(_, _)
InsertByFrame(sorted, row) ==
    IF sorted = <<>> THEN <<row>>
    ELSE IF FrameNum(sorted[Len(sorted)]) <= FrameNum(row)
         THEN Append(sorted, row)
         ELSE Append(InsertByFrame(SubSeq(sorted, 1, Len(sorted) - 1), row),
                     sorted[Len(sorted)])

RECURSIVE SortedByFrame(_)
SortedByFrame(rows) ==
    IF rows = <<>> THEN <<>>
    ELSE InsertByFrame(SortedByFrame(SubSeq(rows, 1, Len(rows) - 1)),
                       rows[Len(rows)])

(* ------------------------------ store --------------------------------- *)
\* The tables of db_setup.py.  A table is the sequence of its rows in id
\* order: ids are AUTOINCREMENT and no row is ever deleted, so the row at
\* position i has id i.
EmptyStore == [taxa |-> <<>>, sequences |-> <<>>, images |-> <<>>]

\* the taxa column that holds a taxon dict's entry (order is stored in order_)
TaxaColumn(column) == IF column = "order" THEN "order_" ELSE column

TAXON_FIELDS ==
    {TAXONOMY_COLUMNS[i] : i \in 1..NumLevels} \cup
    {"common_name", "most_specific_level", "most_specific_name"}

\* the INSERT with most_specific_name bound to the most_specific_level
\* column and most_specific_level to most_specific_name
TaxaRow_SwappedMostSpecific(id, taxon) ==
    [c \in {"id"} \cup {TaxaColumn(f) : f \in TAXON_FIELDS} |->
        IF c = "id" THEN id
        ELSE IF c = "order_" THEN Get(taxon, "order", None)
        ELSE IF c = "most_specific_level"
        THEN Get(taxon, "most_specific_name", None)
        ELSE IF c = "most_specific_name"
        THEN Get(taxon, "most_specific_level", None)
        ELSE Get(taxon, c, None)]

\* INSERT INTO taxa (...) VALUES (taxon.get(...), ...): the stored row
TaxaRow(id, taxon) ==
    [c \in {"id"} \cup {TaxaColumn(f) : f \in TAXON_FIELDS} |->
        IF c = "id" THEN id
        ELSE IF c = "order_" THEN Get(taxon, "order", None)
        ELSE Get(taxon, c, None)]

\* cursor.lastrowid read after the ignored INSERT in place of the SELECT:
\* the id of the sequence inserted last
SelectSequenceId_LastRowId(sequences, sequence_id, taxon_id) ==
    Len(sequences)

\* SELECT id FROM sequences WHERE sequence_id = ? AND taxon_id = ?, then
\* fetchone(): the id of the row found, 0 when there is none
SelectSequenceId(sequences, sequence_id, taxon_id) ==
    LET hit == {i \in 1..Len(sequences) :
                   /\ sequences[i].sequence_id = sequence_id
                   /\ sequences[i].taxon_id = taxon_id}
    IN  IF hit = {} THEN 0 ELSE CHOOSE i \in hit : \A j \in hit : i <= j

\* the sequences table without its UNIQUE constraint
SequenceInserted_NoUnique(sequences, sequence_id, taxon_id) == TRUE

\* INSERT OR IGNORE INTO sequences under UNIQUE(sequence_id, taxon_id):
\* whether the row goes in (cursor.rowcount > 0)
SequenceInserted(sequences, sequence_id, taxon_id) ==
    \A i \in 1..Len(sequences) :
        ~(/\ sequences[i].sequence_id = sequence_id
          /\ sequences[i].taxon_id = taxon_id)

\* the images table without UNIQUE on image_id
ImageInserted_NoUnique(images, image_id) == TRUE

\* INSERT OR IGNORE INTO images under image_id UNIQUE: whether the row goes
\* in (cursor.rowcount > 0)
ImageInserted(images, image_id) ==
    \A i \in 1..Len(images) : images[i].image_id # image_id

(* ------------------------------ Pass 1 -------------------------------- *)
\* the taxon record with the values of its ranks folded to lower case
MakeTaxon_CaseFolded(row) ==
    LET base == [c \in {TAXONOMY_COLUMNS[i] : i \in 1..NumLevels} |->
                    LET value == safe_str(Get(row, c, <<>>))
                    IN  IF IsPresent(value) THEN Lower(value) ELSE None]
        common_name == safe_str(Get(row, "common_name", <<>>))
        most == find_most_specific_level(base)
    IN  [c \in TAXON_FIELDS |->
            IF c = "common_name"
            THEN IF IsPresentCommonName(common_name) THEN common_name ELSE None
            ELSE IF c = "most_specific_level" THEN most[1]
            ELSE IF c = "most_specific_name" THEN most[2]
            ELSE base[c]]

\* the taxon record pass_1_extract_taxa materializes from a row
MakeTaxon(row) ==
    LET base == [c \in {TAXONOMY_COLUMNS[i] : i \in 1..NumLevels} |->
                    LET value == safe_str(Get(row, c, <<>>))
                    IN  IF IsPresent(value) THEN value ELSE None]
        common_name == safe_str(Get(row, "common_name", <<>>))
        most == find_most_specific_level(base)
    IN  [c \in TAXON_FIELDS |->
            IF c = "common_name"
            THEN IF IsPresentCommonName(common_name) THEN common_name ELSE None
            ELSE IF c = "most_specific_level" THEN most[1]
            ELSE IF c = "most_specific_name" THEN most[2]
            ELSE base[c]]

\* taxa_dict is an insertion-ordered dict: the sequence of its values, each
\* found under create_taxon_key of the row it was made from
HasKey(dict, key) == \E i \in 1..Len(dict) : dict[i].key = key

\* the loop body without its `taxon_key not in taxa_dict` test
Pass1Row_NoDedup(dict, row) ==
    IF is_wildlife_row(row)
    THEN Append(dict, [key |-> create_taxon_key(row), taxon |-> MakeTaxon(row)])
    ELSE dict

\* the per-row body of the Pass 1 loop
Pass1Row(dict, row) ==
    IF is_wildlife_row(row) /\ ~HasKey(dict, create_taxon_key(row))
    THEN Append(dict, [key |-> create_taxon_key(row), taxon |-> MakeTaxon(row)])
    ELSE dict

\* the row loop with `break` for `continue` in its except clause: the rest
\* of the chunk is not read
RECURSIVE Pass1Rows_Break(_, _, _, _, _)
Pass1Rows_Break(dict, rows, from, to, errors) ==
    IF from > to THEN dict
    ELSE IF from \in errors
    THEN dict
    ELSE Pass1Rows_Break(Pass1Row(dict, rows[from]), rows, from + 1, to,
                         errors)

\* the row loop of one chunk: a row whose try block raises is reported by
\* the except clause and the loop continues with the next row
RECURSIVE Pass1Rows(_, _, _, _, _)
Pass1Rows(dict, rows, from, to, errors) ==
    IF from > to THEN dict
    ELSE IF from \in errors
    THEN Pass1Rows(dict, rows, from + 1, to, errors)
    ELSE Pass1Rows(Pass1Row(dict, rows[from]), rows, from + 1, to, errors)

\* taxa_id_map.get(taxon_key): 0 stands for None
IdOf(id_map, key) == IF key \in DOMAIN id_map THEN id_map[key] ELSE 0

\* insert_taxa_to_database: the first n taxa of taxa_list inserted into `taxa`,
\* with the map built on the way
RECURSIVE InsertTaxa(_, _, _)
InsertTaxa(taxa, taxa_list, n) ==
    IF n = 0 THEN [taxa |-> taxa, map |-> <<>>]
    ELSE LET prev == InsertTaxa(taxa, taxa_list, n - 1)
             taxon_id == Len(prev.taxa) + 1
             taxon_key == create_taxon_key(taxa_list[n])
         IN  [taxa |-> Append(prev.taxa, TaxaRow(taxon_id, taxa_list[n])),
              map |-> [k \in DOMAIN prev.map \cup {taxon_key} |->
                          IF k = taxon_key THEN taxon_id ELSE prev.map[k]]]

\* taxa committed when the write of taxon number failAt (or, past the last
\* taxon, the final commit) fails: the periodic commits before it
TaxaCommittedBefore(failAt) ==
    ((failAt - 1) \div TaxaCommitEvery) * TaxaCommitEvery

(* ------------------------------ Pass 2 -------------------------------- *)
\* current_batch is an insertion-ordered dict sequence_id -> rows: the
\* sequence of its items
BatchIndex(batch, sequence_id) ==
    LET hit == {i \in 1..Len(batch) : batch[i].sequence_id = sequence_id}
    IN  IF hit = {} THEN 0 ELSE CHOOSE i \in hit : TRUE

\* the per-row body of the Pass 2 loop with `current_batch[sequence_id] =
\* [row]` for the append: a burst keeps only its last row
Pass2Row_Overwrite(batch, row) ==
    LET sequence_id == safe_str(Get(row, "sequence_id", <<>>))
        at == BatchIndex(batch, sequence_id)
    IN  IF is_wildlife_row(row) /\ sequence_id # <<>>
        THEN IF at = 0
             THEN Append(batch, [sequence_id |-> sequence_id, rows |-> <<row>>])
             ELSE [batch EXCEPT ![at].rows = <<row>>]
        ELSE batch

\* the per-row body of the Pass 2 loop
Pass2Row(batch, row) ==
    LET sequence_id == safe_str(Get(row, "sequence_id", <<>>))
        at == BatchIndex(batch, sequence_id)
    IN  IF is_wildlife_row(row) /\ sequence_id # <<>>
        THEN IF at = 0
             THEN Append(batch, [sequence_id |-> sequence_id, rows |-> <<row>>])
             ELSE [batch EXCEPT ![at].rows = Append(@, row)]
        ELSE batch

RECURSIVE Pass2Rows(_, _, _, _)
Pass2Rows(batch, rows, from, to) ==
    IF from > to THEN batch
    ELSE Pass2Rows(Pass2Row(batch, rows[from]), rows, from + 1, to)

\* the keys of taxa_in_sequence, in insertion order
RECURSIVE TaxonKeysOf(_)
TaxonKeysOf(rows) ==
    IF rows = <<>> THEN <<>>
    ELSE LET before == TaxonKeysOf(SubSeq(rows, 1, Len(rows) - 1))
             key == create_taxon_key(rows[Len(rows)])
         IN  IF \E i \in 1..Len(before) : before[i] = key
             THEN before ELSE Append(before, key)

\* taxa_in_sequence[taxon_key]
RowsOfTaxon(rows, key) ==
    SelectSeq(rows, LAMBDA r : create_taxon_key(r) = key)

ImageRow(id, sequence_table_id, row) ==
    [id |-> id,
     image_id |-> safe_str(Get(row, "image_id", <<>>)),
     sequence_table_id |-> sequence_table_id,
     frame_num |-> FrameNum(row),
     url_gcp |-> OrNone(safe_str(Get(row, "url_gcp", <<>>))),
     url_aws |-> OrNone(safe_str(Get(row, "url_aws", <<>>))),
     url_azure |-> OrNone(safe_str(Get(row, "url_azure", <<>>)))]

SequenceRow(id, sequence_id, taxon_id, first_row) ==
    [id |-> id,
     sequence_id |-> sequence_id,
     taxon_id |-> taxon_id,
     location_id |-> OrNone(safe_str(Get(first_row, "location_id", <<>>))),
     datetime |-> OrNone(safe_str(Get(first_row, "datetime", <<>>)))]

\* The state of one burst's try block: the connection's view of the two
\* tables, the counters, the writes executed so far and the exception raised
\* ("" while none).  The write numbered failAt fails in the store.
\* the loop over sorted_images with INSERT OR REPLACE for INSERT OR IGNORE:
\* a row whose image_id is stored overwrites the stored row
RECURSIVE InsertImages_Replace(_, _, _, _, _)
InsertImages_Replace(st, sequence_table_id, sorted_images, i, failAt) ==
    IF i > Len(sorted_images) THEN st
    ELSE IF st.writes + 1 = failAt
    THEN [st EXCEPT !.writes = @ + 1, !.error = "OperationalError"]
    ELSE LET image_id == safe_str(Get(sorted_images[i], "image_id", <<>>))
             at == {m \in 1..Len(st.images) : st.images[m].image_id = image_id}
             st1 == IF at = {}
                    THEN [st EXCEPT
                            !.writes = @ + 1,
                            !.images = Append(@, ImageRow(Len(st.images) + 1,
                                          sequence_table_id, sorted_images[i])),
                            !.images_created = @ + 1]
                    ELSE [st EXCEPT
                            !.writes = @ + 1,
                            !.images = [m \in 1..Len(st.images) |->
                                IF m \in at
                                THEN ImageRow(m, sequence_table_id,
                                              sorted_images[i])
                                ELSE st.images[m]],
                            !.images_created = @ + 1]
         IN  InsertImages_Replace(st1, sequence_table_id, sorted_images, i + 1,
                                  failAt)

\* the loop over sorted_images
RECURSIVE InsertImages(_, _, _, _, _)
InsertImages(st, sequence_table_id, sorted_images, i, failAt) ==
    IF i > Len(sorted_images) THEN st
    ELSE IF st.writes + 1 = failAt
    THEN [st EXCEPT !.writes = @ + 1, !.error = "OperationalError"]
    ELSE LET image_id == safe_str(Get(sorted_images[i], "image_id", <<>>))
             st1 == IF ImageInserted(st.images, image_id)
                    THEN [st EXCEPT
                            !.writes = @ + 1,
                            !.images = Append(@, ImageRow(Len(st.images) + 1,
                                          sequence_table_id, sorted_images[i])),
                            !.images_created = @ + 1]
                    ELSE [st EXCEPT !.writes = @ + 1]
         IN  InsertImages(st1, sequence_table_id, sorted_images, i + 1, failAt)

\* the loop over taxa_in_sequence.items()
RECURSIVE ProcessTaxa(_, _, _, _, _, _, _)
ProcessTaxa(st, sequence_id, rows, keys, g, id_map, failAt) ==
    IF g > Len(keys) THEN st
    ELSE
    LET taxon_rows == RowsOfTaxon(rows, keys[g])
        taxon_id == IdOf(id_map, keys[g])
    IN  IF taxon_id = 0
        THEN ProcessTaxa(st, sequence_id, rows, keys, g + 1, id_map, failAt)
        ELSE IF st.writes + 1 = failAt
        THEN [st EXCEPT !.writes = @ + 1, !.error = "OperationalError"]
        ELSE
        LET created == SequenceInserted(st.sequences, sequence_id, taxon_id)
            st1 == IF created
                   THEN [st EXCEPT
                           !.writes = @ + 1,
                           !.sequences = Append(@, SequenceRow(
                               Len(st.sequences) + 1, sequence_id, taxon_id,
                               taxon_rows[1])),
                           !.sequences_created = @ + 1]
                   ELSE [st EXCEPT !.writes = @ + 1]
            sequence_table_id ==
                IF created THEN Len(st1.sequences)
                ELSE SelectSequenceId(st1.sequences, sequence_id, taxon_id)
        IN  IF sequence_table_id = 0
            THEN [st1 EXCEPT !.error = "TypeError"]
            ELSE IF \E i \in 1..Len(taxon_rows) : FrameRaises(taxon_rows[i])
            THEN [st1 EXCEPT !.error = "ValueError"]
            ELSE LET st2 == InsertImages(st1, sequence_table_id,
                                         SortedByFrame(taxon_rows), 1, failAt)
                 IN  IF st2.error # "" THEN st2
                     ELSE ProcessTaxa(st2, sequence_id, rows, keys, g + 1,
                                      id_map, failAt)

\* one iteration of `for sequence_id, rows in sequence_batch.items()`
ProcessBurst(store, item, id_map, failAt) ==
    ProcessTaxa([sequences |-> store.sequences, images |-> store.images,
                 sequences_created |-> 0, images_created |-> 0,
                 writes |-> 0, error |-> ""],
                item.sequence_id, item.rows, TaxonKeysOf(item.rows), 1,
                id_map, failAt)

Min(a, b) == IF a < b THEN a ELSE b

(* ------------------------------ state --------------------------------- *)
VARIABLES
    database,                 \* what DATABASE_PATH names when the program starts
    csv_exists,               \* whether --csv-path names a file
    csv,                      \* the input file: its rows as pandas reads them
    pc,                       \* where the program is
    total_processed,          \* rows read in the current pass
    taxa_dict,                \* Pass 1's unique taxa
    taxa_id_map,              \* taxon key -> surrogate id
    current_batch,            \* Pass 2's buffer
    flush_i,                  \* the burst the flush is at, 0 outside a flush
    total_sequences_created,
    total_images_created,
    db,                       \* the committed store
    tx,                       \* the store as the open connection sees it
    exit_code,                \* -1 while the program runs
    seq_errors,               \* bursts whose try block printed an error
    flush_faulted,            \* a store write failed inside a flush of this run
    faults,                   \* store faults injected so far
    runs,                     \* invocations so far
    run_kind,                 \* "main", or "pass2" for Pass 2 called again
    row_errors,               \* positions of the rows whose Pass 1 try block raises
    flushed,                  \* the rows process_sequence_batch has iterated over
    taxa_list,                \* GameSession.taxa_list
    current_question,         \* GameSession.current_question
    total_score,              \* GameSession.total_score
    question_results,         \* GameSession.question_results
    last_result,              \* what the last call on the session returned
    requests,                 \* the submit_guess requests in flight
    submits,                  \* submit_guess requests received so far
    fun_facts_cache,          \* GameSession.fun_facts_cache
    fun_fact_fetch_index,     \* GameSession.fun_fact_fetch_index
    fetcher,                  \* where the sequential_fetcher thread is
    hints_cache,              \* GameSession.hints_cache
    hint_calls,               \* ids of the taxa game_logic.get_hint was called for
    hint_requests,            \* the get_hint requests in flight
    game_sessions,            \* app.game_sessions: its keys in insertion order
    sessions_started,         \* session ids start_game has generated
    arrivals,                 \* the requests in flight, seen by the store
    high_scores,              \* the high_scores table, a bag of rows
    game_date,                \* CURRENT_TIMESTAMP, in seconds
    scores_added,             \* every row add_score has committed, a bag
    save_requests             \* the save_high_score requests in flight

vars == <<database, csv_exists, csv, pc, total_processed, taxa_dict,
          taxa_id_map, current_batch,
          flush_i, total_sequences_created, total_images_created, db, tx,
          exit_code, seq_errors, flush_faulted, faults, runs, run_kind,
          row_errors, flushed, taxa_list, current_question, total_score,
          question_results, last_result, requests, submits,
          fun_facts_cache, fun_fact_fetch_index, fetcher, hints_cache,
          hint_calls, hint_requests, game_sessions, sessions_started,
          arrivals, high_scores, game_date, scores_added, save_requests>>

\* the state of the pipeline, and that of one game session and of the
\* requests on it
etl_vars == <<database, csv_exists, csv, pc, total_processed, taxa_dict,
              taxa_id_map, current_batch, flush_i, total_sequences_created,
              total_images_created, db, tx, exit_code, seq_errors,
              flush_faulted, faults, runs, run_kind, row_errors, flushed>>
fact_vars == <<fun_facts_cache, fun_fact_fetch_index, fetcher>>
hint_vars == <<hints_cache, hint_calls, hint_requests>>
store_vars == <<game_sessions, sessions_started, arrivals>>
score_vars == <<high_scores, game_date, scores_added, save_requests>>
web_vars == <<fact_vars, hint_vars, store_vars, score_vars>>
session_vars == <<taxa_list, current_question, total_score,
                  question_results, last_result, requests, submits>>
game_vars == <<session_vars, web_vars>>

(* --------------------------- the game session ------------------------- *)
\* game_logic.py: the ranks from the most specific on, and their points
TAXONOMIC_HIERARCHY ==
    <<"variety", "subspecies", "species", "subgenus", "genus", "tribe",
      "subfamily", "family", "superfamily", "infraorder", "suborder",
      "order", "superorder", "infraclass", "subclass", "class",
      "superclass", "subphylum", "phylum", "kingdom">>

SCORE_VALUES ==
    [level \in {TAXONOMIC_HIERARCHY[n] : n \in 1..Len(TAXONOMIC_HIERARCHY)} |->
        CASE level \in {"variety", "subspecies", "species"} -> 10
          [] level = "subgenus" -> 8
          [] level = "genus" -> 5
          [] level \in {"tribe", "subfamily"} -> 4
          [] level = "family" -> 3
          [] level \in {"superfamily", "infraorder", "suborder", "order"} -> 2
          [] level \in {"superorder", "infraclass", "subclass", "class"} -> 1
          [] OTHER -> 0]

\* column_mapping.get(level, level) with column_mapping = {'order_': 'order'}
ColumnOf(level) == IF level = "order_" THEN "order" ELSE level

\* get_taxonomic_path: the ranks of a taxon dict that hold a value, trimmed
get_taxonomic_path(taxon) ==
    LET held == {n \in 1..Len(TAXONOMIC_HIERARCHY) :
                    LET value == Get(taxon, ColumnOf(TAXONOMIC_HIERARCHY[n]),
                                     None)
                    IN  value # None /\ value # <<>> /\ Strip(value) # <<>>}
    IN  [level \in {TAXONOMIC_HIERARCHY[n] : n \in held} |->
            Strip(taxon[ColumnOf(level)])]

\* the first rank of TAXONOMIC_HIERARCHY among the given levels, 0 when none
FirstLevel(levels) ==
    LET hits == {n \in 1..Len(TAXONOMIC_HIERARCHY) :
                    TAXONOMIC_HIERARCHY[n] \in levels}
    IN  IF hits = {} THEN 0 ELSE CHOOSE n \in hits : \A m \in hits : n <= m

\* the points and the level of the n-th rank, (0, None) when n is 0
ScoreAt(n) ==
    IF n = 0 THEN [points |-> 0, matching_level |-> None]
    ELSE [points |-> SCORE_VALUES[TAXONOMIC_HIERARCHY[n]],
          matching_level |-> <<TAXONOMIC_HIERARCHY[n]>>]

\* calculate_score: (points, matching_level); the two paths are computed
\* once, as its first two statements do
calculate_score(correct_taxon, guess_taxon) ==
    LET Score(correct_path, guess_path) ==
            LET Matches(level) ==
                    /\ level \in DOMAIN correct_path
                    /\ level \in DOMAIN guess_path
                    /\ Lower(correct_path[level]) = Lower(guess_path[level])
            IN  ScoreAt(FirstLevel(
                    {TAXONOMIC_HIERARCHY[k] :
                        k \in {j \in 1..Len(TAXONOMIC_HIERARCHY) :
                                   Matches(TAXONOMIC_HIERARCHY[j])}}))
    IN  CHOOSE score \in
            {Score(correct_path, guess_path) :
                correct_path \in {get_taxonomic_path(correct_taxon)},
                guess_path \in {get_taxonomic_path(guess_taxon)}} : TRUE

\* calculate_score_by_name: (points, matching_level)
calculate_score_by_name(correct_taxon, guess_name) ==
    LET common_name == Get(correct_taxon, "common_name", None)
        most_specific == Get(correct_taxon, "most_specific_level", None)
        Score(guess_name_lower, correct_path) ==
            LET Matches(level) ==
                    /\ level \in DOMAIN correct_path
                    /\ Lower(correct_path[level]) = guess_name_lower
            IN  IF /\ common_name # None /\ common_name # <<>>
                   /\ Strip(Lower(common_name)) = guess_name_lower
                   /\ most_specific # None /\ most_specific # <<>>
                THEN [points |-> IF most_specific[1] \in DOMAIN SCORE_VALUES
                                 THEN SCORE_VALUES[most_specific[1]] ELSE 0,
                      matching_level |-> most_specific]
                ELSE ScoreAt(FirstLevel(
                        {TAXONOMIC_HIERARCHY[k] :
                            k \in {j \in 1..Len(TAXONOMIC_HIERARCHY) :
                                       Matches(TAXONOMIC_HIERARCHY[j])}}))
    IN  CHOOSE score \in
            {Score(guess_name_lower, correct_path) :
                guess_name_lower \in {Strip(Lower(guess_name))},
                correct_path \in {get_taxonomic_path(correct_taxon)}} : TRUE

Max(a, b) == IF a > b THEN a ELSE b

\* an empty dict, and dict[key] = value
EmptyDict == [k \in {} |-> None]
DictSet(dict, key, value) ==
    [k \in DOMAIN dict \cup {key} |-> IF k = key THEN value ELSE dict[k]]

\* what game_logic.get_hint can return for a taxon: None or the text of the
\* reply, stripped
get_hint(taxon) ==
    {None, <<"h", "i", "n", "t", " ">> \o taxon.most_specific_name}

\* what game_logic.get_fun_fact can return for a taxon: None (no API key,
\* no name, an error reply, a request that failed) or the text of the
\* reply, stripped, which can be empty
get_fun_fact(taxon) ==
    {None, <<>>, <<"f", "a", "c", "t", " ">> \o taxon.most_specific_name}

\* GameSession.__init__: taxa_list[:questions_per_game], nothing answered
NewSession(taxa, questions_per_game) ==
    [taxa_list |-> SubSeq(taxa, 1, Min(Len(taxa), questions_per_game)),
     current_question |-> 0,
     total_score |-> 0,
     question_results |-> <<>>,
     fun_facts_cache |-> EmptyDict]

\* GameSession.get_current_taxon (Python counts the questions from 0)
get_current_taxon(session) ==
    IF session.current_question < Len(session.taxa_list)
    THEN session.taxa_list[session.current_question + 1]
    ELSE None

\* the score of a guess: by taxon when the request named one, else by name
ScoreOf(current_taxon, guess_taxon, guess_name) ==
    IF guess_taxon # None
    THEN calculate_score(current_taxon, guess_taxon)
    ELSE calculate_score_by_name(current_taxon, guess_name)

\* submit_answer with `self.total_score = points` for `+=`
submit_answer_ScoreOverwritten(session, guess_taxon, guess_name) ==
    LET current_taxon == get_current_taxon(session)
        score == ScoreOf(current_taxon, guess_taxon, guess_name)
        fun_fact == Get(session.fun_facts_cache, session.current_question,
                        None)
        after == [session EXCEPT
                    !.total_score = score.points,
                    !.question_results = Append(@,
                        [question_num |-> session.current_question + 1,
                         taxon |-> current_taxon,
                         guess |-> guess_name,
                         points |-> score.points]),
                    !.current_question = @ + 1]
    IN  IF current_taxon = None
        THEN [session |-> session,
              result |-> [error |-> "No current question"]]
        ELSE [session |-> after,
              result |-> [points_earned |-> score.points,
                          matching_level |-> score.matching_level,
                          fun_fact |-> fun_fact,
                          has_fun_fact |-> fun_fact # None,
                          total_score |-> after.total_score,
                          current_question |-> after.current_question,
                          questions_remaining |->
                              Max(0, Len(after.taxa_list)
                                         - after.current_question),
                          is_game_complete |->
                              after.current_question >= Len(after.taxa_list)]]

\* GameSession.submit_answer: the session it leaves and the dict it returns
submit_answer(session, guess_taxon, guess_name) ==
    LET current_taxon == get_current_taxon(session)
        score == ScoreOf(current_taxon, guess_taxon, guess_name)
        fun_fact == Get(session.fun_facts_cache, session.current_question,
                        None)
        after == [session EXCEPT
                    !.total_score = @ + score.points,
                    !.question_results = Append(@,
                        [question_num |-> session.current_question + 1,
                         taxon |-> current_taxon,
                         guess |-> guess_name,
                         points |-> score.points]),
                    !.current_question = @ + 1]
    IN  IF current_taxon = None
        THEN [session |-> session,
              result |-> [error |-> "No current question"]]
        ELSE [session |-> after,
              result |-> [points_earned |-> score.points,
                          matching_level |-> score.matching_level,
                          fun_fact |-> fun_fact,
                          has_fun_fact |-> fun_fact # None,
                          total_score |-> after.total_score,
                          current_question |-> after.current_question,
                          questions_remaining |->
                              Max(0, Len(after.taxa_list)
                                         - after.current_question),
                          is_game_complete |->
                              after.current_question >= Len(after.taxa_list)]]

\* GameSession.is_complete
is_complete(session) == session.current_question >= Len(session.taxa_list)

\* GameSession.get_final_score (average_score, a float, left out)
get_final_score(session) ==
    IF ~is_complete(session)
    THEN [error |-> "Game not complete"]
    ELSE [total_score |-> session.total_score,
          questions_answered |-> Len(session.question_results),
          question_results |-> session.question_results,
          max_possible_score |-> Len(session.taxa_list) * 10]

\* Taxa rows as Pass 1 stores them, of the ranks Taxa.get_random_taxa
\* accepts (family and below): a species with a common name, a second
\* species of its genus, and a family of the same order.
GameTaxa ==
    << TaxaRow(1, MakeTaxon(MkRow([order |-> <<"O">>, family |-> <<"F">>,
                                   genus |-> <<"C">>,
                                   species |-> <<"C"," ","l">>,
                                   common_name |-> <<"f","o","x">>]))),
       TaxaRow(2, MakeTaxon(MkRow([order |-> <<"O">>, family |-> <<"F">>,
                                   genus |-> <<"C">>,
                                   species |-> <<"C"," ","x">>]))),
       TaxaRow(3, MakeTaxon(MkRow([order |-> <<"O">>,
                                   family |-> <<"G">>]))) >>

\* what Taxa.get_random_taxa(QUESTIONS_PER_GAME) can return: up to
\* QuestionsPerGame distinct taxa in any order, at least one (start_game
\* refuses an empty list)
TaxaDraws ==
    UNION { {t \in [1..n -> {GameTaxa[k] : k \in 1..Len(GameTaxa)}] :
                \A a, b \in 1..n : t[a] = t[b] => a = b} :
            n \in 1..Min(QuestionsPerGame, Len(GameTaxa)) }

\* the guesses of a request: the taxon the autocompletion selected (None
\* without a selection) and the name typed
Guesses ==
    { [taxon |-> None, name |-> <<"F","o","x"," ">>],
      [taxon |-> GameTaxa[2], name |-> <<"C"," ","x">>],
      [taxon |-> None, name |-> <<"z","z">>] }

\* the session as GameSession's methods see it
Session ==
    [taxa_list |-> taxa_list, current_question |-> current_question,
     total_score |-> total_score, question_results |-> question_results,
     fun_facts_cache |-> fun_facts_cache]

\* no call was made yet; a request slot without a request
NoCall == [call |-> "", value |-> None]
IdleRequest ==
    [pc |-> "idle", guess_name |-> <<>>, guess_taxon |-> None,
     taxon |-> None, points |-> 0, fun_fact |-> None, loaded |-> 0]

\* the fetcher thread before it has run (started is FALSE while no session
\* exists); request slots without a request
NewFetcher == [pc |-> "loop", question_index |-> 0, started |-> TRUE]
NoFetcher == [pc |-> "done", question_index |-> 0, started |-> FALSE]
IdleHintRequest == [pc |-> "idle", taxon |-> None, hint |-> None]
IdleArrival == [pc |-> "idle", route |-> ""]
IdleSaveRequest == [pc |-> "idle", session_id |-> None, player_name |-> <<>>]

\* the caches of a new GameSession, and no request for a hint
NewCaches ==
    /\ fun_facts_cache = EmptyDict
    /\ fun_fact_fetch_index = 0
    /\ hints_cache = EmptyDict
    /\ hint_calls = <<>>
    /\ hint_requests = [r \in 1..MaxRequests |-> IdleHintRequest]

\* db_setup's empty high_scores table, and no request to save a score
NoHighScores ==
    /\ high_scores = EmptyBag
    /\ game_date = 0
    /\ scores_added = EmptyBag
    /\ save_requests = [r \in 1..MaxRequests |-> IdleSaveRequest]

\* no game was started
NoSession ==
    /\ taxa_list = <<>>
    /\ current_question = 0
    /\ total_score = 0
    /\ question_results = <<>>
    /\ last_result = NoCall
    /\ requests = [r \in 1..MaxRequests |-> IdleRequest]
    /\ submits = 0
    /\ NewCaches
    /\ fetcher = NoFetcher
    /\ game_sessions = <<>>
    /\ sessions_started = 0
    /\ arrivals = [r \in 1..MaxRequests |-> IdleArrival]
    /\ NoHighScores

(* ------------------------------ the pipeline -------------------------- *)
\* DATABASE_PATH names no file, a file in which db_setup.py created no table
\* (it commits its schema once, at the end), or the schema of db_setup.py
DatabaseStates == {"absent", "no_tables", "schema"}

\* the program before main's first statement, over an empty store
InitProgram ==
    /\ pc = "start"
    /\ total_processed = 0
    /\ taxa_dict = <<>>
    /\ taxa_id_map = <<>>
    /\ current_batch = <<>>
    /\ flush_i = 0
    /\ total_sequences_created = 0
    /\ total_images_created = 0
    /\ db = EmptyStore
    /\ tx = EmptyStore
    /\ exit_code = -1
    /\ seq_errors = {}
    /\ flush_faulted = FALSE
    /\ faults = 0
    /\ runs = 1
    /\ run_kind = "main"
    /\ flushed = <<>>

Init ==
    /\ database \in DatabaseStates
    /\ csv_exists \in BOOLEAN
    /\ csv \in (IF csv_exists THEN Files ELSE {<<>>})
    /\ row_errors = {}
    /\ InitProgram
    /\ NoSession

\* main's two os.path.exists tests pass: Pass 1 starts
Preflight ==
    /\ pc = "start"
    /\ database # "absent"
    /\ csv_exists
    /\ pc' = "pass1"
    /\ UNCHANGED <<game_vars, database, csv_exists, csv, row_errors, flushed,
                   total_processed, taxa_dict, taxa_id_map, current_batch,
                   flush_i, total_sequences_created, total_images_created, db,
                   tx, exit_code, seq_errors, flush_faulted, faults, runs,
                   run_kind>>

\* one of main's two os.path.exists tests fails: sys.exit(1)
PreflightFails ==
    /\ pc = "start"
    /\ database = "absent" \/ ~csv_exists
    /\ pc' = "failed"
    /\ exit_code' = 1
    /\ UNCHANGED <<game_vars, database, csv_exists, csv, row_errors, flushed,
                   total_processed, taxa_dict, taxa_id_map, current_batch,
                   flush_i, total_sequences_created, total_images_created, db,
                   tx, seq_errors, flush_faulted, faults, runs, run_kind>>

\* one chunk of pass_1_extract_taxa's loop
Pass1Chunk ==
    /\ pc = "pass1"
    /\ total_processed < Len(csv)
    /\ LET to == Min(total_processed + ChunkSize, Len(csv))
       IN  /\ taxa_dict' = Pass1Rows(taxa_dict, csv, total_processed + 1, to,
                                     row_errors)
           /\ total_processed' = to
    /\ UNCHANGED <<game_vars, database, csv_exists, csv, row_errors, flushed,
                   pc, taxa_id_map, current_batch, flush_i,
                   total_sequences_created, total_images_created, db, tx,
                   exit_code, seq_errors, flush_faulted, faults, runs,
                   run_kind>>

\* main without its `if not taxa_id_map` test: Pass 2 is called
Pass1NoTaxa_Proceeds ==
    /\ pc = "pass1"
    /\ total_processed = Len(csv)
    /\ taxa_dict = <<>>
    /\ pc' = "pass2"
    /\ total_processed' = 0
    /\ UNCHANGED <<game_vars, database, csv_exists, csv, row_errors, flushed,
                   taxa_dict, taxa_id_map, current_batch, flush_i,
                   total_sequences_created, total_images_created, db, tx,
                   exit_code, seq_errors, flush_faulted, faults, runs,
                   run_kind>>

\* len(taxa_dict) == 0: return None, None; main prints and exits 1
Pass1NoTaxa ==
    /\ pc = "pass1"
    /\ total_processed = Len(csv)
    /\ taxa_dict = <<>>
    /\ pc' = "failed"
    /\ exit_code' = 1
    /\ UNCHANGED <<game_vars, database, csv_exists, csv, row_errors, flushed,
                   total_processed, taxa_dict, taxa_id_map, current_batch,
                   flush_i, total_sequences_created, total_images_created, db,
                   tx, seq_errors, flush_faulted, faults, runs, run_kind>>

TaxaList == [i \in 1..Len(taxa_dict) |-> taxa_dict[i].taxon]

\* the insertion and the return inside the chunk loop: Pass 1 returns after
\* any chunk with the taxa found so far
Pass1InsertTaxa_Early ==
    /\ pc = "pass1"
    /\ total_processed > 0
    /\ taxa_dict # <<>>
    /\ database = "schema"
    /\ LET done == InsertTaxa(db.taxa, TaxaList, Len(taxa_dict))
       IN  /\ db' = [db EXCEPT !.taxa = done.taxa]
           /\ tx' = [db EXCEPT !.taxa = done.taxa]
           /\ taxa_id_map' = done.map
    /\ pc' = "pass2"
    /\ total_processed' = 0
    /\ UNCHANGED <<game_vars, database, csv_exists, csv, row_errors, flushed,
                   taxa_dict, current_batch, flush_i, total_sequences_created,
                   total_images_created, exit_code, seq_errors, flush_faulted,
                   faults, runs, run_kind>>

\* insert_taxa_to_database runs to its final commit; Pass 2 starts
Pass1InsertTaxa ==
    /\ pc = "pass1"
    /\ total_processed = Len(csv)
    /\ taxa_dict # <<>>
    /\ database = "schema"
    /\ LET done == InsertTaxa(db.taxa, TaxaList, Len(taxa_dict))
       IN  /\ db' = [db EXCEPT !.taxa = done.taxa]
           /\ tx' = [db EXCEPT !.taxa = done.taxa]
           /\ taxa_id_map' = done.map
    /\ pc' = "pass2"
    /\ total_processed' = 0
    /\ UNCHANGED <<game_vars, database, csv_exists, csv, row_errors, flushed,
                   taxa_dict, current_batch, flush_i, total_sequences_created,
                   total_images_created, exit_code, seq_errors, flush_faulted,
                   faults, runs, run_kind>>

\* insert_taxa_to_database without the `raise` of its except clause: the map
\* built before the failing write is returned, and main goes on to Pass 2
\* unless that map is empty
Pass1InsertTaxaFails_Swallowed ==
    /\ pc = "pass1"
    /\ total_processed = Len(csv)
    /\ taxa_dict # <<>>
    /\ database = "schema"
    /\ faults < MaxFaults
    /\ \E failAt \in 1..(Len(taxa_dict) + 1) :
          LET kept == InsertTaxa(db.taxa, TaxaList, TaxaCommittedBefore(failAt))
              built == InsertTaxa(db.taxa, TaxaList, failAt - 1)
          IN  /\ db' = [db EXCEPT !.taxa = kept.taxa]
              /\ tx' = [db EXCEPT !.taxa = kept.taxa]
              /\ taxa_id_map' = built.map
              /\ IF built.map = <<>>
                 THEN pc' = "failed" /\ exit_code' = 1
                 ELSE pc' = "pass2" /\ exit_code' = exit_code
    /\ faults' = faults + 1
    /\ UNCHANGED <<game_vars, database, csv_exists, csv, row_errors, flushed,
                   total_processed, taxa_dict, current_batch, flush_i,
                   total_sequences_created, total_images_created, seq_errors,
                   flush_faulted, runs, run_kind>>

\* a write of insert_taxa_to_database fails: rollback, raise, main exits 1;
\* the periodic commits before the failure stay
Pass1InsertTaxaFails ==
    /\ pc = "pass1"
    /\ total_processed = Len(csv)
    /\ taxa_dict # <<>>
    /\ database = "schema"
    /\ faults < MaxFaults
    /\ \E failAt \in 1..(Len(taxa_dict) + 1) :
          LET kept == InsertTaxa(db.taxa, TaxaList, TaxaCommittedBefore(failAt))
          IN  /\ db' = [db EXCEPT !.taxa = kept.taxa]
              /\ tx' = [db EXCEPT !.taxa = kept.taxa]
    /\ faults' = faults + 1
    /\ pc' = "failed"
    /\ exit_code' = 1
    /\ UNCHANGED <<game_vars, database, csv_exists, csv, row_errors, flushed,
                   total_processed, taxa_dict, taxa_id_map, current_batch,
                   flush_i, total_sequences_created, total_images_created,
                   seq_errors, flush_faulted, runs, run_kind>>

\* the first INSERT INTO taxa meets a database without a taxa table:
\* OperationalError, rollback, raise, main exits 1
Pass1InsertTaxaNoTable ==
    /\ pc = "pass1"
    /\ total_processed = Len(csv)
    /\ taxa_dict # <<>>
    /\ database = "no_tables"
    /\ pc' = "failed"
    /\ exit_code' = 1
    /\ UNCHANGED <<game_vars, database, csv_exists, csv, row_errors, flushed,
                   total_processed, taxa_dict, taxa_id_map, current_batch,
                   flush_i, total_sequences_created, total_images_created, db,
                   tx, seq_errors, flush_faulted, faults, runs, run_kind>>

\* one chunk of pass_2_process_sequences' loop with `>` for `>=` in the
\* threshold test
Pass2Chunk_StrictThreshold ==
    /\ pc = "pass2"
    /\ total_processed < Len(csv)
    /\ LET to == Min(total_processed + ChunkSize, Len(csv))
           batch == Pass2Rows(current_batch, csv, total_processed + 1, to)
       IN  /\ current_batch' = batch
           /\ total_processed' = to
           /\ IF Len(batch) > SequenceBatchSize
              THEN pc' = "flush" /\ flush_i' = 1
              ELSE pc' = "pass2" /\ flush_i' = 0
    /\ UNCHANGED <<game_vars, database, csv_exists, csv, row_errors, flushed,
                   taxa_dict, taxa_id_map, total_sequences_created,
                   total_images_created, db, tx, exit_code, seq_errors,
                   flush_faulted, faults, runs, run_kind>>

\* one chunk of pass_2_process_sequences' loop, up to the threshold test
Pass2Chunk ==
    /\ pc = "pass2"
    /\ total_processed < Len(csv)
    /\ LET to == Min(total_processed + ChunkSize, Len(csv))
           batch == Pass2Rows(current_batch, csv, total_processed + 1, to)
       IN  /\ current_batch' = batch
           /\ total_processed' = to
           /\ IF Len(batch) >= SequenceBatchSize
              THEN pc' = "flush" /\ flush_i' = 1
              ELSE pc' = "pass2" /\ flush_i' = 0
    /\ UNCHANGED <<game_vars, database, csv_exists, csv, row_errors, flushed,
                   taxa_dict, taxa_id_map, total_sequences_created,
                   total_images_created, db, tx, exit_code, seq_errors,
                   flush_faulted, faults, runs, run_kind>>

\* end of input with bursts still buffered: the final batch
Pass2FinalBatch ==
    /\ pc = "pass2"
    /\ total_processed = Len(csv)
    /\ current_batch # <<>>
    /\ pc' = "final_flush"
    /\ flush_i' = 1
    /\ UNCHANGED <<game_vars, database, csv_exists, csv, row_errors, flushed,
                   total_processed, taxa_dict, taxa_id_map, current_batch,
                   total_sequences_created, total_images_created, db, tx,
                   exit_code, seq_errors, flush_faulted, faults, runs,
                   run_kind>>

\* end of input with an empty buffer: Pass 2 returns, main reports success
Pass2Complete ==
    /\ pc = "pass2"
    /\ total_processed = Len(csv)
    /\ current_batch = <<>>
    /\ pc' = "done"
    /\ exit_code' = 0
    /\ UNCHANGED <<game_vars, database, csv_exists, csv, row_errors, flushed,
                   total_processed, taxa_dict, taxa_id_map, current_batch,
                   flush_i, total_sequences_created, total_images_created, db,
                   tx, seq_errors, flush_faulted, faults, runs, run_kind>>

\* what one iteration of process_sequence_batch's loop leaves behind
BurstDone(st, item) ==
    /\ tx' = [tx EXCEPT !.sequences = st.sequences, !.images = st.images]
    /\ total_sequences_created' = total_sequences_created + st.sequences_created
    /\ total_images_created' = total_images_created + st.images_created
    /\ seq_errors' = IF st.error = "" THEN seq_errors
                     ELSE seq_errors \cup {<<item.sequence_id, st.error>>}
    /\ flush_i' = flush_i + 1
    /\ flushed' = flushed \o item.rows

\* process_sequence_batch, one burst: its try block and, when the block
\* raises, its except clause; every store write succeeds
FlushBurst ==
    /\ pc \in {"flush", "final_flush"}
    /\ flush_i \in 1..Len(current_batch)
    /\ BurstDone(ProcessBurst(tx, current_batch[flush_i], taxa_id_map, 0),
                 current_batch[flush_i])
    /\ UNCHANGED <<game_vars, database, csv_exists, csv, row_errors, pc,
                   total_processed, taxa_dict, taxa_id_map, current_batch, db,
                   exit_code, flush_faulted, faults, runs, run_kind>>

\* process_sequence_batch, one burst in which a store write fails: the
\* except clause prints the error and the loop goes on
FlushBurstFails ==
    /\ pc \in {"flush", "final_flush"}
    /\ flush_i \in 1..Len(current_batch)
    /\ faults < MaxFaults
    /\ LET item == current_batch[flush_i]
       IN  \E failAt \in 1..ProcessBurst(tx, item, taxa_id_map, 0).writes :
              BurstDone(ProcessBurst(tx, item, taxa_id_map, failAt), item)
    /\ faults' = faults + 1
    /\ flush_faulted' = TRUE
    /\ UNCHANGED <<game_vars, database, csv_exists, csv, row_errors, pc,
                   total_processed, taxa_dict, taxa_id_map, current_batch, db,
                   exit_code, runs, run_kind>>

\* conn.commit() after process_sequence_batch returned, without the
\* `current_batch = {}` of the threshold flush: the flushed bursts stay
\* buffered and are flushed again
FlushCommit_KeepsBatch ==
    /\ pc \in {"flush", "final_flush"}
    /\ flush_i > Len(current_batch)
    /\ db' = tx
    /\ flush_i' = 0
    /\ IF pc = "flush"
       THEN /\ pc' = "pass2"
            /\ exit_code' = exit_code
       ELSE /\ pc' = "done"
            /\ exit_code' = 0
    /\ UNCHANGED <<game_vars, database, csv_exists, csv, row_errors, flushed,
                   total_processed, taxa_dict, taxa_id_map, current_batch,
                   total_sequences_created, total_images_created, tx,
                   seq_errors, flush_faulted, faults, runs, run_kind>>

\* conn.commit() after process_sequence_batch returned
FlushCommit ==
    /\ pc \in {"flush", "final_flush"}
    /\ flush_i > Len(current_batch)
    /\ db' = tx
    /\ flush_i' = 0
    /\ IF pc = "flush"
       THEN /\ current_batch' = <<>>
            /\ pc' = "pass2"
            /\ exit_code' = exit_code
       ELSE /\ current_batch' = current_batch
            /\ pc' = "done"
            /\ exit_code' = 0
    /\ UNCHANGED <<game_vars, database, csv_exists, csv, row_errors, flushed,
                   total_processed, taxa_dict, taxa_id_map,
                   total_sequences_created, total_images_created, tx,
                   seq_errors, flush_faulted, faults, runs, run_kind>>

\* conn.rollback() with every flush in one transaction: the sequences and
\* images of the earlier flushes go with those of the failing batch
Rollback_WholePass(committed) ==
    [committed EXCEPT !.sequences = <<>>, !.images = <<>>]

\* conn.rollback(): the store is what was committed last
Rollback(committed) == committed

\* conn.commit() raises: rollback, raise, main exits 1
FlushCommitFails ==
    /\ pc \in {"flush", "final_flush"}
    /\ flush_i > Len(current_batch)
    /\ faults < MaxFaults
    /\ faults' = faults + 1
    /\ db' = Rollback(db)
    /\ tx' = Rollback(db)
    /\ flush_i' = 0
    /\ current_batch' = IF pc = "flush" THEN <<>> ELSE current_batch
    /\ pc' = "failed"
    /\ exit_code' = 1
    /\ UNCHANGED <<game_vars, database, csv_exists, csv, row_errors, flushed,
                   total_processed, taxa_dict, taxa_id_map,
                   total_sequences_created, total_images_created, seq_errors,
                   flush_faulted, runs, run_kind>>

\* the program is started again on the same file and the same store
RerunPipeline ==
    /\ pc \in {"done", "failed"}
    /\ runs < MaxRuns
    /\ runs' = runs + 1
    /\ run_kind' = "main"
    /\ pc' = "start"
    /\ total_processed' = 0
    /\ taxa_dict' = <<>>
    /\ taxa_id_map' = <<>>
    /\ current_batch' = <<>>
    /\ flush_i' = 0
    /\ total_sequences_created' = 0
    /\ total_images_created' = 0
    /\ tx' = db
    /\ exit_code' = -1
    /\ seq_errors' = {}
    /\ flush_faulted' = FALSE
    /\ flushed' = <<>>
    /\ UNCHANGED <<game_vars, database, csv_exists, csv, row_errors, db,
                   faults>>

\* pass_2_process_sequences is called again with the map of the run that
\* has just completed
RerunPass2 ==
    /\ pc = "done"
    /\ runs < MaxRuns
    /\ runs' = runs + 1
    /\ run_kind' = "pass2"
    /\ pc' = "pass2"
    /\ total_processed' = 0
    /\ current_batch' = <<>>
    /\ flush_i' = 0
    /\ total_sequences_created' = 0
    /\ total_images_created' = 0
    /\ tx' = db
    /\ exit_code' = -1
    /\ seq_errors' = {}
    /\ flush_faulted' = FALSE
    /\ flushed' = <<>>
    /\ UNCHANGED <<game_vars, database, csv_exists, csv, row_errors, taxa_dict,
                   taxa_id_map, db, faults>>

\* one run of the program, store faults included
Next ==
    \/ Preflight
    \/ PreflightFails
    \/ Pass1Chunk
    \/ Pass1NoTaxa
    \/ Pass1InsertTaxa
    \/ Pass1InsertTaxaFails
    \/ Pass1InsertTaxaNoTable
    \/ Pass2Chunk
    \/ Pass2FinalBatch
    \/ Pass2Complete
    \/ FlushBurst
    \/ FlushBurstFails
    \/ FlushCommit
    \/ FlushCommitFails

Spec == Init /\ [][Next]_vars

\* runs and reruns, of the program or of Pass 2 alone, store faults included
NextRerun ==
    \/ Next
    \/ RerunPipeline
    \/ RerunPass2

SpecRerun == Init /\ [][NextRerun]_vars

\* a run in which the store never fails, and Pass 2 called again after it
NextPass2Again ==
    \/ Preflight
    \/ Pass1Chunk
    \/ Pass1NoTaxa
    \/ Pass1InsertTaxa
    \/ Pass2Chunk
    \/ Pass2FinalBatch
    \/ Pass2Complete
    \/ FlushBurst
    \/ FlushCommit
    \/ RerunPass2

SpecPass2Again == Init /\ [][NextPass2Again]_vars

\* one run, store faults included, over a file of ScenarioFiles
InitScenario ==
    /\ database = "schema"
    /\ csv_exists = TRUE
    /\ csv \in ScenarioFiles
    /\ row_errors = {}
    /\ InitProgram
    /\ NoSession

NextScenario ==
    \/ Preflight
    \/ Pass1Chunk
    \/ Pass1InsertTaxa
    \/ Pass1InsertTaxaFails
    \/ Pass2Chunk
    \/ Pass2FinalBatch
    \/ FlushBurst
    \/ FlushBurstFails
    \/ FlushCommit
    \/ FlushCommitFails

SpecScenario == InitScenario /\ [][NextScenario]_vars

\* one run in which the store never fails, over a file of BurstFiles
InitBursts ==
    /\ database = "schema"
    /\ csv_exists = TRUE
    /\ csv \in BurstFiles
    /\ row_errors = {}
    /\ InitProgram
    /\ NoSession

NextBursts ==
    \/ Preflight
    \/ Pass1Chunk
    \/ Pass1InsertTaxa
    \/ Pass2Chunk
    \/ Pass2FinalBatch
    \/ Pass2Complete
    \/ FlushBurst
    \/ FlushCommit

SpecBursts == InitBursts /\ [][NextBursts]_vars

\* Pass 1 over a file in which the try block of up to MaxRowErrors rows
\* raises; the store never fails
InitRowErrors ==
    /\ database = "schema"
    /\ csv_exists = TRUE
    /\ csv \in Files
    /\ row_errors \in {e \in SUBSET (1..Len(csv)) :
                          Cardinality(e) <= MaxRowErrors}
    /\ InitProgram
    /\ NoSession

NextRowErrors ==
    \/ Preflight
    \/ Pass1Chunk
    \/ Pass1NoTaxa
    \/ Pass1InsertTaxa

SpecRowErrors == InitRowErrors /\ [][NextRowErrors]_vars

\* Pass 1 over a file of one row, the row drawn from ClassifierRows
InitPass1Rows ==
    /\ database = "schema"
    /\ csv_exists = TRUE
    /\ csv \in {<<row>> : row \in ClassifierRows}
    /\ row_errors = {}
    /\ InitProgram
    /\ NoSession

NextPass1Rows ==
    \/ Preflight
    \/ Pass1Chunk
    \/ Pass1NoTaxa
    \/ Pass1InsertTaxa

SpecPass1Rows == InitPass1Rows /\ [][NextPass1Rows]_vars

(* ------------------------ calls on a game session --------------------- *)
\* the pipeline is not running
NoPipeline ==
    /\ database = "schema"
    /\ csv_exists = FALSE
    /\ csv = <<>>
    /\ row_errors = {}
    /\ InitProgram

\* start_game: a session over the taxa drawn, nothing answered, stored as
\* the only session of the server; its fetcher thread was started
InitGame ==
    /\ NoPipeline
    /\ \E taxa \in TaxaDraws :
          LET session == NewSession(taxa, QuestionsPerGame)
          IN  /\ taxa_list = session.taxa_list
              /\ current_question = session.current_question
              /\ total_score = session.total_score
              /\ question_results = session.question_results
    /\ last_result = NoCall
    /\ requests = [r \in 1..MaxRequests |-> IdleRequest]
    /\ submits = 0
    /\ NewCaches
    /\ fetcher = NewFetcher
    /\ game_sessions = <<1>>
    /\ sessions_started = 1
    /\ arrivals = [r \in 1..MaxRequests |-> IdleArrival]
    /\ NoHighScores

\* a session over the first taxa of GameTaxa, in their order
InitGameInOrder ==
    /\ InitGame
    /\ taxa_list = SubSeq(GameTaxa, 1, Len(taxa_list))

\* one call of GameSession.submit_answer, from entry to return
SubmitAnswer ==
    /\ \E g \in Guesses :
          LET out == submit_answer(Session, g.taxon, g.name)
          IN  /\ current_question' = out.session.current_question
              /\ total_score' = out.session.total_score
              /\ question_results' = out.session.question_results
              /\ last_result' = [call |-> "submit_answer", guess |-> g,
                                 value |-> out.result]
    /\ UNCHANGED <<etl_vars, web_vars, taxa_list, requests, submits>>

\* one call of GameSession.get_final_score
GetFinalScore ==
    /\ last_result' = [call |-> "get_final_score",
                       value |-> get_final_score(Session)]
    /\ UNCHANGED <<etl_vars, web_vars, taxa_list, current_question, total_score,
                   question_results, requests, submits>>

\* calls on one session, one after the other
NextGame ==
    \/ SubmitAnswer
    \/ GetFinalScore

SpecGame == InitGame /\ [][NextGame]_vars

\* submit_guess in a thread of the server: the request is received, its
\* guess_name trimmed, and submit_answer is entered
SubmitGuess(r) ==
    /\ requests[r].pc = "idle"
    /\ submits < MaxSubmits
    /\ submits' = submits + 1
    /\ \E g \in Guesses :
          requests' = [requests EXCEPT ![r] =
              [pc |-> "test", guess_name |-> Strip(g.name),
               guess_taxon |-> g.taxon, taxon |-> None, points |-> 0,
               fun_fact |-> None, loaded |-> 0]]
    /\ UNCHANGED <<etl_vars, web_vars, taxa_list, current_question, total_score,
                   question_results, last_result>>

\* get_current_taxon, its test `self.current_question < len(self.taxa_list)`;
\* when it fails submit_answer returns its error
TestQuestion(r) ==
    /\ requests[r].pc = "test"
    /\ IF current_question < Len(taxa_list)
       THEN /\ requests' = [requests EXCEPT ![r].pc = "index"]
            /\ UNCHANGED last_result
       ELSE /\ requests' = [requests EXCEPT ![r] = IdleRequest]
            /\ last_result' = [call |-> "submit_guess", request |-> r,
                               value |-> [error |-> "No current question"]]
    /\ UNCHANGED <<etl_vars, web_vars, taxa_list, current_question, total_score,
                   question_results, submits>>

\* get_current_taxon, its `self.taxa_list[self.current_question]`, and the
\* scoring of the guess against it; an IndexError is caught by submit_guess
IndexTaxon(r) ==
    /\ requests[r].pc = "index"
    /\ IF current_question < Len(taxa_list)
       THEN LET current_taxon == taxa_list[current_question + 1]
                score == ScoreOf(current_taxon, requests[r].guess_taxon,
                                 requests[r].guess_name)
            IN  /\ requests' = [requests EXCEPT
                                   ![r].pc = "fun_fact",
                                   ![r].taxon = current_taxon,
                                   ![r].points = score.points]
                /\ UNCHANGED last_result
       ELSE /\ requests' = [requests EXCEPT ![r] = IdleRequest]
            /\ last_result' = [call |-> "submit_guess", request |-> r,
                               value |-> [error |-> "Failed to process guess"]]
    /\ UNCHANGED <<etl_vars, web_vars, taxa_list, current_question, total_score,
                   question_results, submits>>

\* ReadFunFact waiting until the fetcher has filled the slot of the question
ReadFunFact_WaitsForFetcher(r) ==
    /\ requests[r].pc = "fun_fact"
    /\ current_question \in DOMAIN fun_facts_cache
    /\ requests' = [requests EXCEPT
          ![r].pc = "load_total",
          ![r].fun_fact = fun_facts_cache[current_question]]
    /\ UNCHANGED <<etl_vars, web_vars, taxa_list, current_question,
                   total_score, question_results, last_result, submits>>

\* fun_fact = self.fun_facts_cache.get(self.current_question)
ReadFunFact(r) ==
    /\ requests[r].pc = "fun_fact"
    /\ requests' = [requests EXCEPT
          ![r].pc = "load_total",
          ![r].fun_fact = Get(fun_facts_cache, current_question, None)]
    /\ UNCHANGED <<etl_vars, web_vars, taxa_list, current_question,
                   total_score, question_results, last_result, submits>>

\* self.total_score += points, the read
LoadTotal(r) ==
    /\ requests[r].pc = "load_total"
    /\ requests' = [requests EXCEPT ![r].pc = "store_total",
                                    ![r].loaded = total_score]
    /\ UNCHANGED <<etl_vars, web_vars, taxa_list, current_question, total_score,
                   question_results, last_result, submits>>

\* self.total_score += points, the write
StoreTotal(r) ==
    /\ requests[r].pc = "store_total"
    /\ total_score' = requests[r].loaded + requests[r].points
    /\ requests' = [requests EXCEPT ![r].pc = "append"]
    /\ UNCHANGED <<etl_vars, web_vars, taxa_list, current_question, question_results,
                   last_result, submits>>

\* self.question_results.append({...})
AppendResult(r) ==
    /\ requests[r].pc = "append"
    /\ question_results' = Append(question_results,
          [question_num |-> current_question + 1,
           taxon |-> requests[r].taxon,
           guess |-> requests[r].guess_name,
           points |-> requests[r].points])
    /\ requests' = [requests EXCEPT ![r].pc = "load_question"]
    /\ UNCHANGED <<etl_vars, web_vars, taxa_list, current_question, total_score,
                   last_result, submits>>

\* self.current_question += 1, the read
LoadQuestion(r) ==
    /\ requests[r].pc = "load_question"
    /\ requests' = [requests EXCEPT ![r].pc = "store_question",
                                    ![r].loaded = current_question]
    /\ UNCHANGED <<etl_vars, web_vars, taxa_list, current_question, total_score,
                   question_results, last_result, submits>>

\* self.current_question += 1, the write
StoreQuestion(r) ==
    /\ requests[r].pc = "store_question"
    /\ current_question' = requests[r].loaded + 1
    /\ requests' = [requests EXCEPT ![r].pc = "return"]
    /\ UNCHANGED <<etl_vars, web_vars, taxa_list, total_score, question_results,
                   last_result, submits>>

\* result.update({...}) and the return; submit_guess sends the result
ReturnResult(r) ==
    /\ requests[r].pc = "return"
    /\ last_result' =
          [call |-> "submit_guess", request |-> r,
           value |-> [points_earned |-> requests[r].points,
                      fun_fact |-> requests[r].fun_fact,
                      has_fun_fact |-> requests[r].fun_fact # None,
                      total_score |-> total_score,
                      current_question |-> current_question,
                      questions_remaining |->
                          Max(0, Len(taxa_list) - current_question),
                      is_game_complete |->
                          current_question >= Len(taxa_list)]]
    /\ requests' = [requests EXCEPT ![r] = IdleRequest]
    /\ UNCHANGED <<etl_vars, web_vars, taxa_list, current_question, total_score,
                   question_results, submits>>

\* one step of a submit_guess request
ServeGuess(r) ==
    \/ SubmitGuess(r)
    \/ TestQuestion(r)
    \/ IndexTaxon(r)
    \/ ReadFunFact(r)
    \/ LoadTotal(r)
    \/ StoreTotal(r)
    \/ AppendResult(r)
    \/ LoadQuestion(r)
    \/ StoreQuestion(r)
    \/ ReturnResult(r)

\* submit_guess requests on one session, served by threads that interleave
\* between any two reads or writes of the session
NextGameOverlap == \E r \in 1..MaxRequests : ServeGuess(r)

SpecGameOverlap == InitGame /\ [][NextGameOverlap]_vars

\* sequential_fetcher, the head of its loop: the next question_index, stored
\* in fun_fact_fetch_index, or the end of the thread
FetchNext ==
    /\ fetcher.pc = "loop"
    /\ IF fetcher.question_index < Len(taxa_list)
       THEN /\ fun_fact_fetch_index' = fetcher.question_index
            /\ fetcher' = [fetcher EXCEPT !.pc = "fetch"]
       ELSE /\ fetcher' = [fetcher EXCEPT !.pc = "done"]
            /\ UNCHANGED fun_fact_fetch_index
    /\ UNCHANGED <<etl_vars, session_vars, fun_facts_cache, hint_vars,
                   store_vars, score_vars>>

\* sequential_fetcher: get_fun_fact returned, its value is cached
FetchStore ==
    /\ fetcher.pc = "fetch"
    /\ \E fun_fact \in get_fun_fact(taxa_list[fetcher.question_index + 1]) :
          fun_facts_cache' =
              DictSet(fun_facts_cache, fetcher.question_index, fun_fact)
    /\ fetcher' = [fetcher EXCEPT !.pc = "loop", !.question_index = @ + 1]
    /\ UNCHANGED <<etl_vars, session_vars, fun_fact_fetch_index, hint_vars,
                   store_vars, score_vars>>

\* sequential_fetcher: get_fun_fact raised, the loop continues
FetchFails ==
    /\ fetcher.pc = "fetch"
    /\ fetcher' = [fetcher EXCEPT !.pc = "loop", !.question_index = @ + 1]
    /\ UNCHANGED <<etl_vars, session_vars, fun_facts_cache,
                   fun_fact_fetch_index, hint_vars, store_vars, score_vars>>

\* app.get_hint in a thread of the server: the request is received, its
\* session found, and GameSession.get_hint is entered
GetHint(r) ==
    /\ hint_requests[r].pc = "idle"
    /\ 1 \in {game_sessions[k] : k \in 1..Len(game_sessions)}
    /\ hint_requests' = [hint_requests EXCEPT ![r].pc = "taxon"]
    /\ UNCHANGED <<etl_vars, session_vars, fact_vars, hints_cache,
                   hint_calls, store_vars, score_vars>>

\* GameSession.get_hint: current_taxon = self.get_current_taxon(), with the
\* return of None when every question is answered
HintTaxon(r) ==
    /\ hint_requests[r].pc = "taxon"
    /\ IF get_current_taxon(Session) # None
       THEN /\ hint_requests' = [hint_requests EXCEPT
                  ![r].pc = "cache", ![r].taxon = get_current_taxon(Session)]
            /\ UNCHANGED last_result
       ELSE /\ hint_requests' = [hint_requests EXCEPT ![r] = IdleHintRequest]
            /\ last_result' = [call |-> "get_hint", request |-> r,
                               cached |-> FALSE,
                               value |-> [hint |-> None, has_hint |-> FALSE]]
    /\ UNCHANGED <<etl_vars, taxa_list, current_question, total_score,
                   question_results, requests, submits, fact_vars,
                   hints_cache, hint_calls, store_vars, score_vars>>

\* GameSession.get_hint: `if self.current_question in self.hints_cache`,
\* with the return of the cached hint
HintCached(r) ==
    /\ hint_requests[r].pc = "cache"
    /\ IF current_question \in DOMAIN hints_cache
       THEN /\ hint_requests' = [hint_requests EXCEPT ![r] = IdleHintRequest]
            /\ last_result' =
                  [call |-> "get_hint", request |-> r, cached |-> TRUE,
                   value |-> [hint |-> hints_cache[current_question],
                              has_hint |->
                                  hints_cache[current_question] # None]]
       ELSE /\ hint_requests' = [hint_requests EXCEPT ![r].pc = "generate"]
            /\ UNCHANGED last_result
    /\ UNCHANGED <<etl_vars, taxa_list, current_question, total_score,
                   question_results, requests, submits, fact_vars,
                   hints_cache, hint_calls, store_vars, score_vars>>

\* GameSession.get_hint: hint = get_hint(current_taxon), a request to the
\* hint generator
HintGenerate(r) ==
    /\ hint_requests[r].pc = "generate"
    /\ \E hint \in get_hint(hint_requests[r].taxon) :
          hint_requests' = [hint_requests EXCEPT
              ![r].pc = "store", ![r].hint = hint]
    /\ hint_calls' = Append(hint_calls, hint_requests[r].taxon.id)
    /\ UNCHANGED <<etl_vars, session_vars, fact_vars, hints_cache,
                   store_vars, score_vars>>

\* GameSession.get_hint: self.hints_cache[self.current_question] = hint,
\* and the return of the hint
HintStore(r) ==
    /\ hint_requests[r].pc = "store"
    /\ hints_cache' =
          DictSet(hints_cache, current_question, hint_requests[r].hint)
    /\ last_result' =
          [call |-> "get_hint", request |-> r, cached |-> FALSE,
           value |-> [hint |-> hint_requests[r].hint,
                      has_hint |-> hint_requests[r].hint # None]]
    /\ hint_requests' = [hint_requests EXCEPT ![r] = IdleHintRequest]
    /\ UNCHANGED <<etl_vars, taxa_list, current_question, total_score,
                   question_results, requests, submits, fact_vars,
                   hint_calls, store_vars, score_vars>>

\* one step of a get_hint request
ServeHint(r) ==
    \/ GetHint(r)
    \/ HintTaxon(r)
    \/ HintCached(r)
    \/ HintGenerate(r)
    \/ HintStore(r)

\* get_hint requests on one session, served by threads that interleave,
\* between answers
NextHints ==
    \/ \E r \in 1..MaxRequests : ServeHint(r)
    \/ SubmitAnswer

SpecHints == InitGameInOrder /\ [][NextHints]_vars

\* cleanup_sessions: `len(game_sessions) > 100` and `session_ids[:50]`
SessionLimit == 100
SessionsRemoved == 50

\* the start_game requests in flight
StartsInFlight ==
    Cardinality({r \in 1..MaxRequests :
                    arrivals[r].pc # "idle" /\ arrivals[r].route = "start_game"})

\* a request arrives and a thread of the server takes it: a start_game, or
\* a request of a route that leaves the session store alone
Arrive(r) ==
    /\ arrivals[r].pc = "idle"
    /\ \E route \in {"start_game", "index"} :
          /\ route = "start_game" =>
                sessions_started + StartsInFlight < SessionLimit + MaxArrivals
          /\ arrivals' = [arrivals EXCEPT ![r] =
                             [pc |-> "before_request", route |-> route]]
    /\ UNCHANGED <<etl_vars, session_vars, fact_vars, hint_vars,
                   game_sessions, sessions_started, score_vars>>

\* cleanup_sessions, run before every request: its test
CleanupTest(r) ==
    /\ arrivals[r].pc = "before_request"
    /\ arrivals' = [arrivals EXCEPT ![r].pc =
          IF Len(game_sessions) > SessionLimit THEN "cleanup" ELSE "route"]
    /\ UNCHANGED <<etl_vars, session_vars, fact_vars, hint_vars,
                   game_sessions, sessions_started, score_vars>>

\* cleanup_sessions: the first 50 keys of the dict, in insertion order,
\* are popped
CleanupPop(r) ==
    /\ arrivals[r].pc = "cleanup"
    /\ game_sessions' =
          SubSeq(game_sessions,
                 Min(SessionsRemoved, Len(game_sessions)) + 1,
                 Len(game_sessions))
    /\ arrivals' = [arrivals EXCEPT ![r].pc = "route"]
    /\ UNCHANGED <<etl_vars, session_vars, fact_vars, hint_vars,
                   sessions_started, score_vars>>

\* start_game: a new session id, a GameSession, stored under its id
StartGame(r) ==
    /\ arrivals[r].pc = "route"
    /\ arrivals[r].route = "start_game"
    /\ sessions_started' = sessions_started + 1
    /\ game_sessions' = Append(game_sessions, sessions_started + 1)
    /\ arrivals' = [arrivals EXCEPT ![r] = IdleArrival]
    /\ UNCHANGED <<etl_vars, session_vars, fact_vars, hint_vars, score_vars>>

\* index and the other routes that do not write game_sessions
OtherRoute(r) ==
    /\ arrivals[r].pc = "route"
    /\ arrivals[r].route # "start_game"
    /\ arrivals' = [arrivals EXCEPT ![r] = IdleArrival]
    /\ UNCHANGED <<etl_vars, session_vars, fact_vars, hint_vars,
                   game_sessions, sessions_started, score_vars>>

\* one step of a request, as the session store sees it
ServeRequest(r) ==
    \/ Arrive(r)
    \/ CleanupTest(r)
    \/ CleanupPop(r)
    \/ StartGame(r)
    \/ OtherRoute(r)

\* requests served by threads that interleave
NextSessions == \E r \in 1..MaxRequests : ServeRequest(r)

SpecSessions == InitGameInOrder /\ [][NextSessions]_vars

\* ORDER BY score DESC, game_date ASC: row a comes before row b
Before(a, b) ==
    \/ a.score > b.score
    \/ a.score = b.score /\ a.game_date < b.game_date

\* SELECT ... FROM high_scores ORDER BY score DESC, game_date ASC
RECURSIVE OrderedRows(_)
OrderedRows(table) ==
    IF table = EmptyBag THEN <<>>
    ELSE LET first == CHOOSE a \in BagToSet(table) :
                          \A b \in BagToSet(table) : ~Before(b, a)
         IN  <<first>> \o OrderedRows(table (-) SetToBag({first}))

\* HighScores.get_top_scores: ... LIMIT ?
get_top_scores(table, limit) ==
    LET rows == OrderedRows(table)
    IN  SubSeq(rows, 1, Min(limit, Len(rows)))

\* the rows of a sequence, as a table
RECURSIVE RowsToTable(_)
RowsToTable(rows) ==
    IF rows = <<>> THEN EmptyBag
    ELSE SetToBag({Head(rows)}) (+) RowsToTable(Tail(rows))

\* add_score's `LIMIT 10`
HighScoreLimit == 10

\* add_score without its DELETE statement
add_score_NothingDeleted(table, score, date) ==
    table (+) SetToBag({[score |-> score, game_date |-> date]})

\* HighScores.add_score, committed: the row is inserted with the current
\* timestamp, and every row that is not among the first 10 is deleted (the
\* id and the player_name of a row play no part in it and are left out)
add_score(table, score, date) ==
    LET inserted == table (+) SetToBag({[score |-> score, game_date |-> date]})
    IN  RowsToTable(get_top_scores(inserted, HighScoreLimit))

\* the total scores that are saved
Scores == {3, 10}

\* db_setup's empty high_scores table, no game played
InitHighScores ==
    /\ NoPipeline
    /\ NoSession

\* one call of HighScores.add_score that commits, at the time of the last
\* call or a second later
AddScore ==
    /\ BagCardinality(scores_added) < MaxAdds
    /\ \E score \in Scores, date \in {game_date, game_date + 1} :
          /\ date <= MaxDate
          /\ game_date' = date
          /\ high_scores' = add_score(high_scores, score, date)
          /\ scores_added' =
                scores_added (+)
                    SetToBag({[score |-> score, game_date |-> date]})
          /\ last_result' = [call |-> "add_score",
                             row |-> [score |-> score, game_date |-> date],
                             value |-> TRUE]
    /\ UNCHANGED <<etl_vars, taxa_list, current_question, total_score,
                   question_results, requests, submits, fact_vars,
                   hint_vars, store_vars, save_requests>>

\* one call of HighScores.add_score in which the store raises: rollback
AddScoreFails ==
    /\ last_result' = [call |-> "add_score", value |-> FALSE]
    /\ UNCHANGED <<etl_vars, taxa_list, current_question, total_score,
                   question_results, requests, submits, fact_vars,
                   hint_vars, store_vars, score_vars>>

NextHighScores ==
    \/ AddScore
    \/ AddScoreFails

SpecHighScores == InitHighScores /\ [][NextHighScores]_vars

\* the player names and the session ids that save_high_score requests carry
PlayerNames == {<<>>, <<" ">>, <<"A">>, <<" ", "A", " ">>}
SessionIds == {1, 2}

\* the ids under which game_sessions holds a session
StoredSessions == {game_sessions[k] : k \in 1..Len(game_sessions)}

\* save_high_score: the request's data is read and the name is stripped; an
\* empty name is answered with 400
SaveRequest(r) ==
    /\ save_requests[r].pc = "idle"
    /\ \E session_id \in SessionIds, name \in PlayerNames :
          LET player_name == Strip(name)
          IN  IF player_name = <<>>
              THEN /\ last_result' = [call |-> "save_high_score",
                                      request |-> r, status |-> 400,
                                      value |-> "Player name required"]
                   /\ UNCHANGED save_requests
              ELSE /\ save_requests' = [save_requests EXCEPT ![r] =
                                          [pc |-> "get_session",
                                           session_id |-> session_id,
                                           player_name |-> player_name]]
                   /\ UNCHANGED last_result
    /\ UNCHANGED <<etl_vars, taxa_list, current_question, total_score,
                   question_results, requests, submits, fact_vars,
                   hint_vars, store_vars, high_scores, game_date,
                   scores_added>>

\* save_high_score: game_sessions.get(session_id) and is_complete(); a
\* session that is not stored or not complete is answered with 400
SaveGetSession(r) ==
    /\ save_requests[r].pc = "get_session"
    /\ IF /\ save_requests[r].session_id \in StoredSessions
          /\ is_complete(Session)
       THEN /\ save_requests' = [save_requests EXCEPT ![r].pc = "add_score"]
            /\ UNCHANGED last_result
       ELSE /\ save_requests' = [save_requests EXCEPT ![r] = IdleSaveRequest]
            /\ last_result' = [call |-> "save_high_score", request |-> r,
                               status |-> 400,
                               value |-> "Invalid session or game not complete"]
    /\ UNCHANGED <<etl_vars, taxa_list, current_question, total_score,
                   question_results, requests, submits, fact_vars,
                   hint_vars, store_vars, high_scores, game_date,
                   scores_added>>

\* save_high_score: HighScores.add_score(player_name,
\* game_session.total_score) commits, one transaction of the store
SaveAddScore(r) ==
    /\ save_requests[r].pc = "add_score"
    /\ \E date \in {game_date, game_date + 1} :
          /\ date <= MaxDate
          /\ game_date' = date
          /\ high_scores' = add_score(high_scores, total_score, date)
          /\ scores_added' =
                scores_added (+)
                    SetToBag({[score |-> total_score, game_date |-> date]})
    /\ save_requests' = [save_requests EXCEPT ![r].pc = "del_session"]
    /\ UNCHANGED <<etl_vars, taxa_list, current_question, total_score,
                   question_results, last_result, requests, submits,
                   fact_vars, hint_vars, store_vars>>

\* save_high_score: add_score returns False, or raises: answered with 500
SaveAddScoreFails(r) ==
    /\ save_requests[r].pc = "add_score"
    /\ save_requests' = [save_requests EXCEPT ![r] = IdleSaveRequest]
    /\ last_result' = [call |-> "save_high_score", request |-> r,
                       status |-> 500, value |-> "Failed to save high score"]
    /\ UNCHANGED <<etl_vars, taxa_list, current_question, total_score,
                   question_results, requests, submits, fact_vars,
                   hint_vars, store_vars, high_scores, game_date,
                   scores_added>>

\* save_high_score: del game_sessions[session_id] and the reply; the del
\* raises KeyError when the session is no longer stored, answered with 500
SaveDelSession(r) ==
    /\ save_requests[r].pc = "del_session"
    /\ IF save_requests[r].session_id \in StoredSessions
       THEN /\ game_sessions' =
                  SelectSeq(game_sessions,
                            LAMBDA id : id # save_requests[r].session_id)
            /\ last_result' = [call |-> "save_high_score", request |-> r,
                               status |-> 200, value |-> "success"]
       ELSE /\ UNCHANGED game_sessions
            /\ last_result' = [call |-> "save_high_score", request |-> r,
                               status |-> 500,
                               value |-> "Failed to save high score"]
    /\ save_requests' = [save_requests EXCEPT ![r] = IdleSaveRequest]
    /\ UNCHANGED <<etl_vars, taxa_list, current_question, total_score,
                   question_results, requests, submits, fact_vars,
                   hint_vars, sessions_started, arrivals, high_scores,
                   game_date, scores_added>>

\* one step of a save_high_score request
ServeSave(r) ==
    \/ SaveRequest(r)
    \/ SaveGetSession(r)
    \/ SaveAddScore(r)
    \/ SaveAddScoreFails(r)
    \/ SaveDelSession(r)

\* submit_guess on the session while it is stored
SubmitStored ==
    /\ 1 \in StoredSessions
    /\ SubmitAnswer

\* a game played on one session and save_high_score requests served by
\* threads that interleave
NextSaves ==
    \/ \E r \in 1..MaxRequests : ServeSave(r)
    \/ SubmitStored

SpecSaves == InitGameInOrder /\ [][NextSaves]_vars

\* Taxa rows as Pass 1 stores them, for calculate_score: the rows of
\* GameTaxa; orders, classes and kingdoms that differ in case only; a
\* suborder shared below a shared order; a taxon that shares no rank
ScoreTaxa ==
    {GameTaxa[k] : k \in 1..Len(GameTaxa)} \cup
    { TaxaRow(4, MakeTaxon(MkRow([order |-> <<"o">>, family |-> <<"H">>]))),
      TaxaRow(5, MakeTaxon(MkRow([class |-> <<"M">>, order |-> <<"P">>,
                                  family |-> <<"I">>]))),
      TaxaRow(6, MakeTaxon(MkRow([class |-> <<"m">>, order |-> <<"Q">>,
                                  family |-> <<"J">>]))),
      TaxaRow(7, MakeTaxon(MkRow([kingdom |-> <<"A">>,
                                  family |-> <<"K">>]))),
      TaxaRow(8, MakeTaxon(MkRow([kingdom |-> <<"a">>,
                                  family |-> <<"L">>]))),
      TaxaRow(9, MakeTaxon(MkRow([family |-> <<"Z">>]))),
      TaxaRow(10, MakeTaxon(MkRow([order |-> <<"O">>, suborder |-> <<"S">>,
                                   family |-> <<"Y">>]))),
      TaxaRow(11, MakeTaxon(MkRow([order |-> <<"O">>, suborder |-> <<"S">>,
                                   family |-> <<"X">>]))) }

\* no game is played and nothing was scored
InitScores ==
    /\ NoPipeline
    /\ NoSession

\* one call of calculate_score on two stored taxa
CalculateScore ==
    /\ \E correct_taxon \in ScoreTaxa, guess_taxon \in ScoreTaxa :
          last_result' = [call |-> "calculate_score",
                          correct_taxon |-> correct_taxon,
                          guess_taxon |-> guess_taxon,
                          value |-> calculate_score(correct_taxon,
                                                    guess_taxon)]
    /\ UNCHANGED <<etl_vars, taxa_list, current_question, total_score,
                   question_results, requests, submits, web_vars>>

NextScores == CalculateScore

SpecScores == InitScores /\ [][NextScores]_vars

\* one submit_guess request at a time on a session whose fetcher thread runs
NextFunFacts ==
    \/ ServeGuess(1)
    \/ FetchNext
    \/ FetchStore
    \/ FetchFails

\* the thread that serves a request runs on whenever it can; nothing is
\* asked of the fetcher thread, whose requests can take any time
SpecFunFacts ==
    InitGameInOrder /\ [][NextFunFacts]_vars /\ WF_vars(ServeGuess(1))

(* ------------------------- vocabulary of the claims ------------------- *)
ValidRows == {i \in 1..Len(csv) : is_wildlife_row(csv[i])}
RowKey(i) == create_taxon_key(csv[i])
RowBurst(i) == safe_str(Get(csv[i], "sequence_id", <<>>))
RowImage(i) == safe_str(Get(csv[i], "image_id", <<>>))

\* a stored taxa row read back as a taxon dict, and its composite key
TaxonOfRow(r) == [c \in TAXON_FIELDS |-> r[TaxaColumn(c)]]
TaxaRowKey(r) == create_taxon_key(TaxonOfRow(r))

\* the id map exists: Pass 1 has returned it
MapBuilt == pc \in {"pass2", "flush", "final_flush", "done"}

\* rows that reach a flush: valid, with a burst identifier
BufferedRows == {i \in ValidRows : RowBurst(i) # <<>>}

OneTaxonPerKey(store) ==
    Cardinality({TaxaRowKey(store.taxa[a]) : a \in 1..Len(store.taxa)})
        = Len(store.taxa)

\* the taxon keys of the valid rows, and what the rows bound for a flush
\* carry: (burst, key) and (image id, burst, key)
ValidKeys == {RowKey(i) : i \in ValidRows}
BufferedPairs == {<<RowBurst(i), RowKey(i)>> : i \in BufferedRows}
BufferedImages == {<<RowImage(i), RowBurst(i), RowKey(i)>> : i \in BufferedRows}

OneSequencePerPair(store) ==
    \A a, b \in 1..Len(store.sequences) :
        (/\ store.sequences[a].sequence_id = store.sequences[b].sequence_id
         /\ store.sequences[a].taxon_id = store.sequences[b].taxon_id) => a = b

OneImagePerId(store) ==
    \A a, b \in 1..Len(store.images) :
        store.images[a].image_id = store.images[b].image_id => a = b

(* ------------------------------- C1 ----------------------------------- *)
\* C1: within one run, once Pass 1 has returned, every valid row's taxon key
\* is in the id map, two valid rows have the same id exactly when their keys
\* are equal, the id is that of the stored taxon with that key, the store
\* holds one taxon per key, and every sequence a flush writes carries the id
\* the map gives to a valid row of its burst.
C1_SameKeySameId ==
    /\ Cardinality({taxa_dict[a].key : a \in 1..Len(taxa_dict)})
          = Len(taxa_dict)
    /\ MapBuilt =>
          /\ \A k \in ValidKeys :
                /\ k \in DOMAIN taxa_id_map
                /\ taxa_id_map[k] \in 1..Len(db.taxa)
                /\ TaxaRowKey(db.taxa[taxa_id_map[k]]) = k
          /\ \A k1, k2 \in ValidKeys :
                (k1 = k2) <=> (taxa_id_map[k1] = taxa_id_map[k2])
          /\ OneTaxonPerKey(db)
          /\ LET written == {<<p[1], taxa_id_map[p[2]]>> : p \in BufferedPairs}
             IN  \A k \in 1..Len(tx.sequences) :
                    <<tx.sequences[k].sequence_id, tx.sequences[k].taxon_id>>
                        \in written

\* two rows whose raw cells differ share a key and an id, a third row has
\* another key, and flushes have written sequences for both
C1_Witness ==
    /\ pc = "done" /\ runs = 1
    /\ \E i, j, k \in ValidRows :
          /\ i < k /\ k < j
          /\ csv[i] # csv[j] /\ RowKey(i) = RowKey(j)
          /\ RowKey(k) # RowKey(i)
          /\ \E a, b \in 1..Len(db.sequences) :
                /\ db.sequences[a].taxon_id = taxa_id_map[RowKey(i)]
                /\ db.sequences[b].taxon_id = taxa_id_map[RowKey(k)]

(* ------------------------------- C2 ----------------------------------- *)
\* C2 (as claimed): whenever a run of the pipeline has completed, also a rerun
\* over a store an earlier run populated, the store holds one taxon per
\* composite key, one sequence per burst and taxon, one image per image id.
C2_RerunAddsNoDuplicates ==
    (pc = "done" /\ run_kind = "main") =>
        /\ OneTaxonPerKey(db)
        /\ \A a, b \in 1..Len(db.sequences) :
              (/\ db.sequences[a].sequence_id = db.sequences[b].sequence_id
               /\ TaxaRowKey(db.taxa[db.sequences[a].taxon_id]) =
                     TaxaRowKey(db.taxa[db.sequences[b].taxon_id])) => a = b
        /\ OneImagePerId(db)

(* ------------------------------- C3 ----------------------------------- *)
\* C3: while Pass 2 runs again with the id map of a run that completed, no
\* store write failing in either, it creates no sequence and no image, the
\* connection holds nothing uncommitted, and it does not fail.
C3_SecondPass2AddsNothing ==
    run_kind = "pass2" =>
        /\ total_sequences_created = 0
        /\ total_images_created = 0
        /\ tx = db
        /\ pc # "failed"

\* the second Pass 2 has completed over a store with several sequences and
\* images, after flushing in two batches
C3_Witness ==
    /\ run_kind = "pass2" /\ faults = 0 /\ pc = "done"
    /\ Len(db.sequences) >= 2
    /\ Len(db.images) >= 2

(* ------------------------------- C4 ----------------------------------- *)
\* C4: committed or not, the store never holds two sequences with the same
\* (burst id, taxon id); the lookup of an existing pair never fails; and an
\* image is attached to the sequence of the burst and taxon of a row that
\* carries its image id.
C4_OneSequencePerBurstTaxon ==
    /\ OneSequencePerPair(db)
    /\ OneSequencePerPair(tx)
    /\ \A e \in seq_errors : e[2] # "TypeError"
    /\ LET carried == BufferedImages
       IN  \A m \in 1..Len(tx.images) :
              /\ tx.images[m].sequence_table_id \in 1..Len(tx.sequences)
              /\ LET s == tx.sequences[tx.images[m].sequence_table_id]
                 IN  <<tx.images[m].image_id, s.sequence_id,
                       TaxaRowKey(tx.taxa[s.taxon_id])>> \in carried

\* a later flush has attached an image to a sequence an earlier flush committed
C4_Witness ==
    /\ runs = 1
    /\ Len(tx.images) > Len(db.images)
    /\ \E m \in (Len(db.images) + 1)..Len(tx.images) :
          tx.images[m].sequence_table_id \in 1..Len(db.sequences)

(* ------------------------------- C5 ----------------------------------- *)
\* C5 (as claimed): after a run without store faults, two valid rows of one
\* burst with different taxon keys have two sequence records with that
\* sequence_id and their two taxon ids.
C5_TwoTaxaTwoSequences ==
    (pc = "done" /\ runs = 1 /\ faults = 0) =>
        \A i, j \in BufferedRows :
            (RowBurst(i) = RowBurst(j) /\ RowKey(i) # RowKey(j)) =>
                \E a, b \in 1..Len(db.sequences) :
                    /\ a # b
                    /\ db.sequences[a].sequence_id = RowBurst(i)
                    /\ db.sequences[b].sequence_id = RowBurst(i)
                    /\ db.sequences[a].taxon_id = IdOf(taxa_id_map, RowKey(i))
                    /\ db.sequences[b].taxon_id = IdOf(taxa_id_map, RowKey(j))
                    /\ db.sequences[a].taxon_id # db.sequences[b].taxon_id

(* ------------------------------- C6 ----------------------------------- *)
\* C6: image ids are unique in the store, every image belongs to one existing
\* sequence, a committed image is never changed or removed, and when no store
\* fault occurs and every frame number parses no burst reports an error.
C6_ImageIdsUnique ==
    /\ [](/\ OneImagePerId(db)
          /\ OneImagePerId(tx)
          /\ \A m \in 1..Len(tx.images) :
                Cardinality({k \in 1..Len(tx.sequences) :
                    tx.sequences[k].id = tx.images[m].sequence_table_id}) = 1
          /\ (faults = 0 /\ \A i \in 1..Len(csv) : ~FrameRaises(csv[i]))
                => seq_errors = {})
    /\ [][/\ Len(db'.images) >= Len(db.images)
          /\ \A m \in 1..Len(db.images) : db'.images[m] = db.images[m]
          /\ \A k \in 1..Len(db.sequences) :
                db'.sequences[k] = db.sequences[k]]_vars

\* an image id carried by rows of two bursts is stored once, both rows flushed
C6_Witness ==
    /\ pc = "done" /\ runs = 1 /\ faults = 0
    /\ \E i, j \in BufferedRows :
          /\ i < j
          /\ RowImage(i) = RowImage(j)
          /\ RowBurst(i) # RowBurst(j)
          /\ \E m \in 1..Len(db.images) :
                /\ db.images[m].image_id = RowImage(i)
                /\ db.sequences[db.images[m].sequence_table_id].sequence_id
                      = RowBurst(i)

(* ------------------------------- C7 ----------------------------------- *)
\* a cell is absent: trimmed, it is empty or nan, none or null in any case
CellAbsent(value) ==
    LET s == IF value = NaN \/ value = None THEN <<>> ELSE Strip(value)
    IN  Lower(s) \in {<<>>, S_nan, S_none, S_null}

\* every hierarchy field absent, common name absent or the placeholder
Excluded(row) ==
    /\ \A i \in 1..NumLevels : CellAbsent(row[TAXONOMY_COLUMNS[i]])
    /\ \/ CellAbsent(row["common_name"])
       \/ Lower(Strip(row["common_name"])) = S_empty

\* a taxon with no rank and no name but, at most, the placeholder
PlaceholderTaxon(taxon) ==
    /\ \A i \in 1..NumLevels : taxon[TAXONOMY_COLUMNS[i]] = None
    /\ \/ taxon["common_name"] = None
       \/ Lower(taxon["common_name"]) = S_empty

\* C7: no taxon is ever made or stored from an excluded row, no excluded row
\* is ever buffered for a flush, and an image id carried by excluded rows
\* only is never stored, whatever the row's position, burst and image id.
C7_ExcludedRowProducesNothing ==
    /\ \A a \in 1..Len(taxa_dict) : ~PlaceholderTaxon(taxa_dict[a].taxon)
    /\ \A a \in 1..Len(tx.taxa) : ~PlaceholderTaxon(TaxonOfRow(tx.taxa[a]))
    /\ \A a \in 1..Len(db.taxa) : ~PlaceholderTaxon(TaxonOfRow(db.taxa[a]))
    /\ \A b \in 1..Len(current_batch) :
          \A k \in 1..Len(current_batch[b].rows) :
              ~Excluded(current_batch[b].rows[k])
    /\ LET excluded == {i \in 1..Len(csv) : Excluded(csv[i])}
           bursts == {RowBurst(j) : j \in (1..Len(csv)) \ excluded}
           images == {RowImage(j) : j \in (1..Len(csv)) \ excluded}
       IN  \A i \in excluded :
              /\ RowBurst(i) \notin bursts =>
                    \A k \in 1..Len(tx.sequences) :
                        tx.sequences[k].sequence_id # RowBurst(i)
              /\ RowImage(i) \notin images =>
                    \A m \in 1..Len(tx.images) :
                        tx.images[m].image_id # RowImage(i)

\* a run has completed over a file that holds an excluded row between rows
\* that were stored
C7_Witness ==
    /\ pc = "done" /\ faults = 0
    /\ Len(db.images) >= 2
    /\ \E i \in 1..Len(csv) :
          /\ Excluded(csv[i])
          /\ 1 < i /\ i < Len(csv)
          /\ \A j \in 1..Len(csv) : j # i => ~Excluded(csv[j])

(* ------------------------------- C8 ----------------------------------- *)
\* the frame index the claim gives a row: 0 when missing or unparseable
ClaimedFrame(i) == IF FrameRaises(csv[i]) THEN 0 ELSE FrameNum(csv[i])

\* C8 (as claimed): after a run without store faults every buffered row's
\* image is stored, a row with a missing or unparseable frame index has
\* frame 0, and the images of a sequence are in ascending frame order.
C8_ImagesInFrameOrder ==
    (pc = "done" /\ runs = 1 /\ faults = 0) =>
        /\ \A i \in BufferedRows :
              \E m \in 1..Len(db.images) :
                  db.images[m].image_id = RowImage(i)
        /\ \A i \in BufferedRows :
              (\A j \in BufferedRows : RowImage(j) = RowImage(i) => j = i) =>
                  \A m \in 1..Len(db.images) :
                      db.images[m].image_id = RowImage(i) =>
                          db.images[m].frame_num = ClaimedFrame(i)

(* ------------------------------- C9 ----------------------------------- *)
\* C9 (as claimed): once a store write has failed inside a flush, the program
\* does not exit with code 0.
C9_FlushFailureAborts ==
    flush_faulted => exit_code # 0

(* ------------------------------- C10 ---------------------------------- *)
\* every record the batch stands for is in the store
BatchComplete(store) ==
    \A b \in 1..Len(current_batch) :
        \A k \in 1..Len(current_batch[b].rows) :
            LET row == current_batch[b].rows[k]
                taxon_id == IdOf(taxa_id_map, create_taxon_key(row))
            IN  taxon_id # 0 =>
                  /\ \E a \in 1..Len(store.sequences) :
                        /\ store.sequences[a].sequence_id =
                              current_batch[b].sequence_id
                        /\ store.sequences[a].taxon_id = taxon_id
                  /\ \E m \in 1..Len(store.images) :
                        store.images[m].image_id =
                            safe_str(Get(row, "image_id", <<>>))

\* C10 (as claimed): when a flush is about to commit, the connection holds
\* either every record of the batch or nothing that is not committed yet.
C10_FlushAllOrNothing ==
    (pc \in {"flush", "final_flush"} /\ flush_i > Len(current_batch)) =>
        (tx = db \/ BatchComplete(tx))

(* ------------------------------- C11 ---------------------------------- *)
\* table `later` holds every row of table `earlier`, unchanged, under its id
Preserved(earlier, later) ==
    /\ Len(later) >= Len(earlier)
    /\ \A i \in 1..Len(earlier) : later[i] = earlier[i]

\* C11: no step removes or alters a committed taxon, sequence or image, and
\* the step in which a flush of Pass 2 fails leaves the committed store as
\* it was and the connection with nothing but the committed store.
C11_CommittedRecordsSurvive ==
    [][/\ Preserved(db.taxa, db'.taxa)
       /\ Preserved(db.sequences, db'.sequences)
       /\ Preserved(db.images, db'.images)
       /\ (pc \in {"flush", "final_flush"} /\ pc' = "failed") =>
              (db' = db /\ tx' = db)]_vars

\* Pass 2 has failed in a later flush, after an earlier flush committed
\* sequences and images: they and the taxa of Pass 1 are in the store
C11_Witness ==
    /\ pc = "failed" /\ runs = 1
    /\ taxa_id_map # <<>>
    /\ total_processed = Len(csv)
    /\ Len(db.taxa) = Len(taxa_dict)
    /\ db.sequences # <<>>
    /\ db.images # <<>>
    /\ tx = db

(* ------------------------------- C12 ---------------------------------- *)
\* C12: over an input without a valid row the program never gets past
\* Pass 1: the store stays empty, committed and uncommitted, there is no id
\* map and no batch, the exit code is never 0, and once the program has
\* stopped the whole input was scanned and the exit code is 1.
C12_NoTaxaAbort ==
    (csv_exists /\ database # "absent" /\ ValidRows = {}) =>
        /\ pc \in {"start", "pass1", "failed"}
        /\ db = EmptyStore
        /\ tx = EmptyStore
        /\ taxa_dict = <<>>
        /\ taxa_id_map = <<>>
        /\ current_batch = <<>>
        /\ exit_code \in {-1, 1}
        /\ pc = "failed" => (exit_code = 1 /\ total_processed = Len(csv))

\* Pass 1 has scanned a file of several rows, none of them valid, and the
\* program has stopped
C12_Witness ==
    /\ pc = "failed"
    /\ database = "schema"
    /\ Len(csv) >= 2
    /\ ValidRows = {}
    /\ total_processed = Len(csv)
    /\ exit_code = 1

(* ------------------------------- C13 ---------------------------------- *)
\* the taxa insertion of this run lost a write: Pass 1 is over and the store
\* holds fewer taxa than Pass 1 found
TaxaInsertFailed ==
    /\ pc \notin {"start", "pass1"}
    /\ Len(db.taxa) < Len(taxa_dict)

\* C13: once a write of the taxa insertion has failed, the program has
\* stopped with exit code 1, no id map was handed on, no row was buffered
\* for a flush, and the store holds no sequence and no image, committed or
\* not.
C13_TaxaWriteFailureAborts ==
    TaxaInsertFailed =>
        /\ pc = "failed"
        /\ exit_code = 1
        /\ taxa_id_map = <<>>
        /\ current_batch = <<>>
        /\ db.sequences = <<>> /\ db.images = <<>>
        /\ tx.sequences = <<>> /\ tx.images = <<>>

\* the insertion failed after a periodic commit: some of the taxa, not all,
\* are in the store and the program has stopped
C13_Witness ==
    /\ pc = "failed"
    /\ faults = 1
    /\ db.taxa # <<>>
    /\ Len(db.taxa) < Len(taxa_dict)
    /\ \E i \in BufferedRows : TRUE

(* ------------------------------- C14 ---------------------------------- *)
\* C14 (as claimed): while the destination schema is absent (no database
\* file, or a file without the tables) or the input file is absent, the
\* program is before Pass 1 or has stopped with a non-zero code, no input row
\* has been scanned and nothing is in the store.
C14_PreflightAbort ==
    (database # "schema" \/ ~csv_exists) =>
        /\ pc \in {"start", "failed"}
        /\ total_processed = 0
        /\ taxa_dict = <<>>
        /\ db = EmptyStore
        /\ tx = EmptyStore
        /\ exit_code \in {-1, 1}

(* ------------------------------- C15 ---------------------------------- *)
\* Pass 1 has been over row i
Pass1Scanned(i) ==
    \/ pc = "pass1" /\ total_processed >= i
    \/ MapBuilt

\* trimmed and in lower case, the cell is the word `empty`
IsEmptyWord(value) == value # NaN /\ Lower(Strip(value)) = S_empty

\* C15: a cell is taken as present exactly when, trimmed, it is not empty
\* and not nan, none or null in any letter case; a row is a wildlife row
\* exactly when a hierarchy cell is present or the common name is present
\* and not the word `empty` in any letter case; a row whose only present
\* cell is a hierarchy cell holding `empty` is a wildlife row; and Pass 1
\* makes a taxon from a row exactly when it is a wildlife row.
C15_ValidRowRule ==
    \A i \in 1..Len(csv) :
        LET row == csv[i]
            present == {c \in TAXON_FIELDS \ {"most_specific_level",
                                               "most_specific_name"} :
                           ~CellAbsent(row[c])}
        IN  /\ \A c \in DOMAIN row :
                  IsPresent(safe_str(row[c])) <=> ~CellAbsent(row[c])
            /\ is_wildlife_row(row) <=>
                  \/ present \ {"common_name"} # {}
                  \/ /\ "common_name" \in present
                     /\ ~IsEmptyWord(row["common_name"])
            /\ (\E c \in present :
                    /\ present = {c}
                    /\ c # "common_name"
                    /\ IsEmptyWord(row[c])) => is_wildlife_row(row)
            /\ Pass1Scanned(i) =>
                  (HasKey(taxa_dict, create_taxon_key(row)) <=>
                      is_wildlife_row(row))

\* Pass 1 has made a taxon from a row whose only present cell is the
\* kingdom, holding `empty`, beside a sentinel word in another cell
C15_Witness ==
    /\ pc = "pass2"
    /\ Len(csv) = 1
    /\ IsEmptyWord(csv[1]["kingdom"])
    /\ \A c \in DOMAIN csv[1] :
          c \notin {"kingdom", "sequence_id", "image_id"} => CellAbsent(csv[1][c])
    /\ csv[1]["species"] # NaN
    /\ csv[1]["common_name"] # NaN
    /\ Len(taxa_dict) = 1
    /\ Len(db.taxa) = 1

(* ------------------------------- C16 ---------------------------------- *)
\* the component a cell gives: the trimmed cell, empty when the cell is absent
Component(value) == IF CellAbsent(value) THEN <<>> ELSE Strip(value)

\* the key as the amended claim gives it
ClaimedKey(row) ==
    [n \in 1..21 |->
        IF n <= 20 THEN Component(row[TAXONOMY_COLUMNS[n]])
        ELSE IF IsEmptyWord(row["common_name"]) THEN <<>>
        ELSE Component(row["common_name"])]

\* C16 (as claimed): the key of a row has 20 components, the hierarchy
\* fields from kingdom on followed by the common name, each the trimmed cell
\* or the empty string when the cell is absent.
C16_KeyOf19RanksAndName ==
    \A i \in 1..Len(csv) :
        LET key == create_taxon_key(csv[i])
        IN  /\ Len(key) = 20
            /\ \A n \in 1..19 : key[n] = Component(csv[i][TAXONOMY_COLUMNS[n]])
            /\ key[20] = Component(csv[i]["common_name"])

\* C16 (amended): the key of a row has 21 components, the 20 hierarchy
\* fields from kingdom to variety followed by the common name; a hierarchy
\* component is the trimmed cell, or the empty string when the cell is
\* absent; the common-name component is the trimmed cell, or the empty
\* string when the cell is absent or holds the word `empty`; and the taxon
\* Pass 1 makes from a wildlife row is filed under that key.
C16_KeyOf20RanksAndName ==
    /\ NumLevels = 20
    /\ TAXONOMY_COLUMNS[1] = "kingdom"
    /\ TAXONOMY_COLUMNS[NumLevels] = "variety"
    /\ \A i \in 1..Len(csv) :
          LET key == create_taxon_key(csv[i])
              claimed == ClaimedKey(csv[i])
          IN  /\ Len(key) = 21
              /\ key = claimed
              /\ (Pass1Scanned(i) /\ is_wildlife_row(csv[i])) =>
                    \E a \in 1..Len(taxa_dict) : taxa_dict[a].key = claimed

\* Pass 1 has filed a taxon made from a row with a sentinel word for kingdom,
\* a species in need of trimming and the placeholder for common name
C16_Witness ==
    /\ pc = "pass2"
    /\ Len(csv) = 1
    /\ Len(taxa_dict) = 1
    /\ csv[1]["kingdom"] # NaN /\ taxa_dict[1].key[1] = <<>>
    /\ taxa_dict[1].key[18] # <<>> /\ taxa_dict[1].key[18] # csv[1]["species"]
    /\ taxa_dict[1].key[19] # <<>>
    /\ IsEmptyWord(csv[1]["common_name"]) /\ taxa_dict[1].key[21] = <<>>

(* ------------------------------- C17 ---------------------------------- *)
\* a key with every component in lower case
Folded(key) == [n \in 1..Len(key) |-> Lower(key[n])]

\* the pairs of keys of valid rows that are the same but for the letter case
\* of at least one present field
CaseVariantKeys ==
    UNION { IF Cardinality({Folded(k) : k \in keys}) = Cardinality(keys)
            THEN {}
            ELSE {p \in keys \X keys :
                     p[1] # p[2] /\ Folded(p[1]) = Folded(p[2])} :
            keys \in {{ClaimedKey(csv[i]) : i \in ValidRows}} }

\* C17: two valid rows that differ by letter case only have two different
\* taxon keys, each with the spelling of its row, and, once Pass 1 has
\* returned, two different surrogate ids naming two stored taxa with those
\* spellings.
C17_KeysAreCaseSensitive ==
    \A p \in CaseVariantKeys :
        /\ p[1] \in ValidKeys
        /\ p[2] \in ValidKeys
        /\ MapBuilt =>
              LET a == IdOf(taxa_id_map, p[1])
                  b == IdOf(taxa_id_map, p[2])
              IN  /\ a # 0 /\ b # 0 /\ a # b
                  /\ a <= Len(db.taxa) /\ b <= Len(db.taxa)
                  /\ TaxaRowKey(db.taxa[a]) = p[1]
                  /\ TaxaRowKey(db.taxa[b]) = p[2]

\* a run has completed over a file with two rows that differ by letter case
\* only, and each of the two taxa has a sequence
C17_Witness ==
    /\ pc = "done" /\ runs = 1
    /\ \E p \in CaseVariantKeys :
          \E a, b \in 1..Len(db.sequences) :
              /\ db.sequences[a].taxon_id = taxa_id_map[p[1]]
              /\ db.sequences[b].taxon_id = taxa_id_map[p[2]]
              /\ a # b

(* ------------------------------- C18 ---------------------------------- *)
\* the ranks of a row that hold a present value
PresentRanks(row) ==
    {n \in 1..NumLevels : ~CellAbsent(row[TAXONOMY_COLUMNS[n]])}

\* C18: the most specific rank of a row is the present rank nearest to
\* variety, given with its trimmed value; it is species when species alone
\* is present and subspecies when species and subspecies alone are; it is
\* no rank and no name exactly when no rank is present; and the taxon Pass 1
\* makes from the row, and the taxa row stored for it, carry that rank and
\* that name.
C18_MostSpecificRank ==
    \A i \in 1..Len(csv) :
        LET row == csv[i]
            present == PresentRanks(row)
            names == {TAXONOMY_COLUMNS[n] : n \in present}
            most == find_most_specific_level(row)
        IN  /\ (present = {}) <=> (most = <<None, None>>)
            /\ (most[1] = None) <=> (most[2] = None)
            /\ \A n \in present :
                  (\A m \in present : m <= n) =>
                      most = <<LevelName(n), Strip(row[TAXONOMY_COLUMNS[n]])>>
            /\ names = {"species"} => most[1] = <<"species">>
            /\ names = {"species", "subspecies"} => most[1] = <<"subspecies">>
            /\ (Pass1Scanned(i) /\ is_wildlife_row(row)) =>
                  \E a \in 1..Len(taxa_dict) :
                      /\ taxa_dict[a].key = create_taxon_key(row)
                      /\ taxa_dict[a].taxon["most_specific_level"] = most[1]
                      /\ taxa_dict[a].taxon["most_specific_name"] = most[2]
                      /\ MapBuilt =>
                            /\ db.taxa[a]["most_specific_level"] = most[1]
                            /\ db.taxa[a]["most_specific_name"] = most[2]

\* Pass 1 has stored the taxon of a row with species and subspecies present
\* and a sentinel word for kingdom: its rank is subspecies
C18_Witness ==
    /\ pc = "pass2"
    /\ Len(csv) = 1
    /\ csv[1]["kingdom"] # NaN
    /\ {TAXONOMY_COLUMNS[n] : n \in PresentRanks(csv[1])} =
          {"species", "subspecies"}
    /\ Len(db.taxa) = 1
    /\ db.taxa[1]["most_specific_level"] = <<"subspecies">>
    /\ db.taxa[1]["most_specific_name"] = <<"c","r","u","c","i","g","e","r","a">>

(* ------------------------------- C19 ---------------------------------- *)
\* the image ids of a sequence's images, in the order they were inserted
ImageIdsOf(store, sequence_table_id) ==
    LET own == SelectSeq(store.images,
                   LAMBDA im : im.sequence_table_id = sequence_table_id)
    IN  [m \in 1..Len(own) |-> own[m].image_id]

\* C19: after a run without store fault over the three rows, in any order,
\* the store holds two taxa, one with species Canis latrans and one with
\* Puma concolor; two sequences, both with sequence_id 1001, one per taxon;
\* the coyote sequence owns the images B, A inserted in that order with
\* frames 1, 2, and the puma sequence owns the image C.
C19_ScenarioResult ==
    (pc = "done" /\ faults = 0) =>
        /\ Len(db.taxa) = 2
        /\ {db.taxa[a]["species"] : a \in 1..2} = {S_CanisLatrans, S_PumaConcolor}
        /\ Len(db.sequences) = 2
        /\ \A k \in 1..2 : db.sequences[k].sequence_id = S_1001
        /\ {db.sequences[k].taxon_id : k \in 1..2} = {1, 2}
        /\ \A k \in 1..2 :
              LET species == db.taxa[db.sequences[k].taxon_id]["species"]
              IN  ImageIdsOf(db, k) =
                      IF species = S_CanisLatrans THEN <<(<<"B">>), (<<"A">>)>>
                      ELSE <<(<<"C">>)>>
        /\ Len(db.images) = 3
        /\ \A m \in 1..3 :
              db.images[m].frame_num =
                  IF db.images[m].image_id = <<"A">> THEN 2 ELSE 1
        /\ seq_errors = {}

\* the run has completed, without store fault, over the rows in the order
\* A, B, C: the coyote sequence was created first and B was inserted first
C19_Witness ==
    /\ pc = "done" /\ faults = 0
    /\ csv = ScenarioRows
    /\ db.sequences[1].taxon_id = 1
    /\ db.taxa[1]["species"] = S_CanisLatrans
    /\ db.images[1].image_id = <<"B">>
    /\ db.images[2].image_id = <<"A">>
    /\ db.images[3].image_id = <<"C">>
    /\ db.images[3].sequence_table_id = 2

(* ------------------------------- C20 ---------------------------------- *)
\* Pass 1 has done all its work: a taxon was found for the key of every
\* valid row of the input, each taxon found is committed under its key, and
\* the id map sends each key to the id of that taxon
Pass1Complete ==
    /\ {taxa_dict[a].key : a \in 1..Len(taxa_dict)} = ValidKeys
    /\ Len(db.taxa) = Len(taxa_dict)
    /\ DOMAIN taxa_id_map = ValidKeys
    /\ \A a \in 1..Len(taxa_dict) :
          /\ TaxaRowKey(db.taxa[a]) = taxa_dict[a].key
          /\ taxa_id_map[taxa_dict[a].key] = db.taxa[a]["id"]

\* C20: whenever Pass 2 is under way or over, a row is buffered for a flush,
\* or the store holds a sequence or an image, committed or not, Pass 1 has
\* done all its work.
C20_Pass2AfterPass1 ==
    (\/ pc \in {"pass2", "flush", "final_flush", "done"}
     \/ current_batch # <<>>
     \/ tx.sequences # <<>> \/ tx.images # <<>>
     \/ db.sequences # <<>> \/ db.images # <<>>) => Pass1Complete

\* a flush is writing sequences and images, none committed yet, for a file
\* whose last chunk brought a taxon the chunks before it had not
C20_Witness ==
    /\ pc \in {"flush", "final_flush"}
    /\ tx.sequences # <<>> /\ tx.images # <<>>
    /\ db.sequences = <<>>
    /\ Len(csv) > ChunkSize
    /\ \E i \in ValidRows :
          /\ i > ChunkSize
          /\ \A j \in ValidRows : j <= ChunkSize => RowKey(j) # RowKey(i)
    /\ Len(db.taxa) >= 2

(* ----------------------- buffering and flushing ----------------------- *)
\* how often a row occurs in a sequence of rows
Occurrences(rows, row) == Cardinality({k \in 1..Len(rows) : rows[k] = row})

\* the rows of the buffer's bursts, burst after burst, from burst `from` on
RECURSIVE RowsOfBatch(_, _)
RowsOfBatch(batch, from) ==
    IF from > Len(batch) THEN <<>>
    ELSE batch[from].rows \o RowsOfBatch(batch, from + 1)

\* Pass 2 is under way or has returned normally
InPass2 == pc \in {"pass2", "flush", "final_flush", "done"}

\* the rows in the buffer that no flush has iterated over yet
PendingRows ==
    IF pc = "pass2" THEN RowsOfBatch(current_batch, 1)
    ELSE IF pc \in {"flush", "final_flush"}
    THEN RowsOfBatch(current_batch, flush_i)
    ELSE <<>>

\* every buffered row sits under the burst identifier of its sequence_id cell
UnderOwnBurst ==
    \A b \in 1..Len(current_batch) :
        \A k \in 1..Len(current_batch[b].rows) :
            safe_str(Get(current_batch[b].rows[k], "sequence_id", <<>>))
                = current_batch[b].sequence_id

\* each row of `rows` read so far by Pass 2 is pending in the buffer or was
\* handed to a flush, as often as it occurs among them; after the final
\* flush each is among the flushed rows
NoneDropped(rows) ==
    \A i \in rows :
        i <= total_processed =>
            Occurrences(flushed \o PendingRows, csv[i])
                >= Cardinality({j \in rows : j <= total_processed
                                                /\ csv[j] = csv[i]})

\* C21 as claimed: in Pass 2 every valid wildlife row read so far is in the
\* buffer under its burst identifier or has been handed to a flush, so at
\* the end of Pass 2 every valid wildlife row has taken part in a flush.
C21_EveryValidRowBuffered ==
    InPass2 => UnderOwnBurst /\ NoneDropped(ValidRows)

\* C21: in Pass 2 every valid wildlife row with a non-empty burst identifier
\* that was read so far is in the buffer under that identifier or has been
\* handed to a flush, so at the end of Pass 2 each of them has taken part
\* in a flush; a valid row without a burst identifier is not buffered.
C21_EveryBurstRowBuffered ==
    /\ InPass2 => UnderOwnBurst /\ NoneDropped(BufferedRows)
    /\ InPass2 =>
          \A i \in ValidRows \ BufferedRows :
              Occurrences(flushed \o PendingRows, csv[i]) = 0

\* Pass 2 is over; a threshold flush and the final flush have taken every
\* buffered row between them, and a valid row without burst identifier was
\* left out
C21_Witness ==
    /\ pc = "done"
    /\ ValidRows # BufferedRows
    /\ Cardinality(BufferedRows) >= 2
    /\ Len(flushed) = Cardinality(BufferedRows)
    /\ Len(flushed) > Len(RowsOfBatch(current_batch, 1))

\* C22 as claimed: at no point of Pass 2 does the buffer hold more distinct
\* burst identifiers than the flush threshold.
C22_BufferWithinThreshold ==
    InPass2 => Len(current_batch) <= SequenceBatchSize

\* C22: the threshold is tested once per chunk, after the chunk's rows are
\* buffered.  Between two chunks the buffer holds fewer distinct burst
\* identifiers than the threshold, a threshold flush starts exactly when a
\* chunk has taken their number to the threshold or past it, and the buffer
\* never holds more of them than the threshold minus one plus the rows of
\* one chunk.
C22_BufferWithinThresholdAndChunk ==
    /\ pc = "pass2" => Len(current_batch) < SequenceBatchSize
    /\ pc = "flush" => Len(current_batch) >= SequenceBatchSize
    /\ InPass2 => Len(current_batch) <= SequenceBatchSize - 1 + ChunkSize
    /\ InPass2 =>
          Cardinality({current_batch[b].sequence_id :
                          b \in 1..Len(current_batch)}) = Len(current_batch)

\* a threshold flush over a buffer that a chunk has taken past the threshold
C22_Witness ==
    /\ pc = "flush"
    /\ Len(current_batch) > SequenceBatchSize

\* each buffered row read so far is pending in the buffer or was handed to
\* a flush exactly as often as it occurs in the input, and nothing else was
FlushedOnce ==
    /\ \A i \in BufferedRows :
          i <= total_processed =>
              Occurrences(flushed \o PendingRows, csv[i])
                  = Cardinality({j \in BufferedRows :
                                    j <= total_processed /\ csv[j] = csv[i]})
    /\ Len(flushed \o PendingRows)
          = Cardinality({j \in BufferedRows : j <= total_processed})

\* C23 as claimed: when Pass 2 has completed the buffer is empty and every
\* buffered row was handed to exactly one flush.
C23_BufferEmptyAtEnd ==
    pc = "done" =>
        /\ current_batch = <<>>
        /\ FlushedOnce

\* C23: a threshold flush empties the buffer; throughout Pass 2 no buffered
\* row is handed to a flush twice; and when Pass 2 has completed every
\* buffered row was handed to exactly one flush, the rows buffered after the
\* last threshold flush to the final flush, which leaves them in the buffer.
C23_EveryRowFlushedOnce ==
    /\ [](InPass2 => FlushedOnce)
    /\ [](pc = "done" =>
            /\ total_processed = Len(csv)
            /\ Len(flushed) = Cardinality(BufferedRows)
            /\ \E n \in 0..Len(flushed) :
                  RowsOfBatch(current_batch, 1)
                      = SubSeq(flushed, n + 1, Len(flushed)))
    /\ [][pc = "flush" /\ pc' # "flush" => current_batch' = <<>>]_vars

\* Pass 2 has completed after a threshold flush and a final flush, and the
\* rows of the final flush are still in the buffer
C23_Witness ==
    /\ pc = "done"
    /\ current_batch # <<>>
    /\ Len(flushed) > Len(RowsOfBatch(current_batch, 1))
    /\ Len(flushed) = Cardinality(BufferedRows)

\* the rows of the input, in input order, that are buffered under the burst
\* and carry the taxon of a stored sequence record
RowsOfSequence(seq) ==
    {i \in BufferedRows :
        /\ RowBurst(i) = seq.sequence_id
        /\ IdOf(taxa_id_map, RowKey(i)) = seq.taxon_id}

FirstRowOf(seq) ==
    CHOOSE i \in RowsOfSequence(seq) : \A j \in RowsOfSequence(seq) : i <= j

\* a stored sequence record has the location and the timestamp of the first
\* row of its (burst, taxon) pair
MetadataOfFirstRow(store) ==
    \A a \in 1..Len(store.sequences) :
        LET seq == store.sequences[a]
        IN  /\ RowsOfSequence(seq) # {}
            /\ seq.location_id =
                  OrNone(safe_str(Get(csv[FirstRowOf(seq)], "location_id", <<>>)))
            /\ seq.datetime =
                  OrNone(safe_str(Get(csv[FirstRowOf(seq)], "datetime", <<>>)))

\* C24: the location and the timestamp of a stored sequence record are those
\* of the first valid row, in input order, with its (burst, taxon) pair, in
\* the connection's view and in the committed store, and no later row or
\* flush changes a sequence record that stays stored.
C24_MetadataOfFirstRow ==
    /\ [](MetadataOfFirstRow(tx) /\ MetadataOfFirstRow(db))
    /\ [][\A a \in 1..Len(tx.sequences) :
             a <= Len(tx'.sequences) =>
                 tx'.sequences[a] = tx.sequences[a]]_vars

(* --------------------------- row errors in Pass 1 --------------------- *)
\* the keys of the taxa Pass 1 has discovered
DiscoveredKeys == {taxa_dict[a].key : a \in 1..Len(taxa_dict)}

\* the valid rows Pass 1 has read whose try block did not raise
RowsTaken == {i \in ValidRows : i <= total_processed /\ i \notin row_errors}

\* C25: a row whose processing raises in Pass 1 adds nothing to the
\* discovered taxa and does not stop the pass: while Pass 1 reads and after
\* it the discovered taxa are exactly those of the valid rows read whose
\* processing did not raise, rows after a raising row included, and Pass 1
\* ends in failure only when it has read the whole input and no such row
\* exists.
C25_RowErrorSkipsRow ==
    /\ pc = "pass1" => DiscoveredKeys = {RowKey(i) : i \in RowsTaken}
    /\ MapBuilt =>
          /\ DiscoveredKeys
                = {RowKey(i) : i \in ValidRows \ row_errors}
          /\ DOMAIN taxa_id_map = DiscoveredKeys
    /\ pc = "failed" =>
          /\ total_processed = Len(csv)
          /\ ValidRows \ row_errors = {}

\* Pass 1 is over: the processing of a valid row raised, its taxon is not
\* among the discovered taxa, and a later row has contributed its taxon
C25_Witness ==
    /\ MapBuilt
    /\ \E i \in row_errors \cap ValidRows :
          /\ RowKey(i) \notin DOMAIN taxa_id_map
          /\ \E j \in ValidRows :
                j > i /\ RowKey(j) \in DOMAIN taxa_id_map

(* ------------------------ referential integrity ----------------------- *)
\* the ids of the rows of a table
IdsOf(table) == {table[a]["id"] : a \in 1..Len(table)}

\* the row of a table with a given id
RowWithId(table, id) == table[CHOOSE a \in 1..Len(table) : table[a]["id"] = id]

\* every sequence of the store names a stored taxon
SequencesNameTaxa(store) ==
    \A a \in 1..Len(store.sequences) :
        store.sequences[a].taxon_id \in IdsOf(store.taxa)

\* every image of the store names a stored sequence, and an input row with
\* the image's id has that sequence's burst and taxon
ImagesNameSequences(store) ==
    \A m \in 1..Len(store.images) :
        /\ store.images[m].sequence_table_id \in IdsOf(store.sequences)
        /\ LET seq == RowWithId(store.sequences,
                                store.images[m].sequence_table_id)
           IN  \E i \in BufferedRows :
                  /\ RowImage(i) = store.images[m].image_id
                  /\ RowBurst(i) = seq.sequence_id
                  /\ seq.taxon_id \in IdsOf(store.taxa)
                  /\ RowKey(i) = TaxaRowKey(RowWithId(store.taxa, seq.taxon_id))

\* C26: in every committed store state each sequence record's taxon_id is
\* the id of a persisted taxon, and each image record's sequence_table_id
\* is the id of a persisted sequence whose burst id and taxon are those of
\* an input row that carries the image's id.
C26_ReferentialIntegrity ==
    /\ SequencesNameTaxa(db)
    /\ ImagesNameSequences(db)

\* the committed store holds two taxa and two sequences, and its last image
\* was attached to a sequence found by the lookup, not to the last one
C26_Witness ==
    /\ pc = "done"
    /\ Len(db.taxa) >= 2
    /\ Len(db.sequences) >= 2
    /\ Len(db.images) >= 2
    /\ db.images[Len(db.images)].sequence_table_id < Len(db.sequences)

(* ------------------------ the taxon-not-found skip -------------------- *)
\* the key of every valid row has an id in the map Pass 1 returned
ValidKeysMapped ==
    \A i \in ValidRows : IdOf(taxa_id_map, RowKey(i)) # 0

\* no group of a buffered burst is skipped as 'taxon not found'
NoTaxonSkipped ==
    \A b \in 1..Len(current_batch) :
        \A k \in 1..Len(current_batch[b].rows) :
            IdOf(taxa_id_map, create_taxon_key(current_batch[b].rows[k])) # 0

\* every (burst, taxon) pair of a buffered row has its sequence record
EveryPairHasSequence(store) ==
    \A p \in BufferedPairs :
        \E a \in 1..Len(store.sequences) :
            /\ store.sequences[a].sequence_id = p[1]
            /\ store.sequences[a].taxon_id = IdOf(taxa_id_map, p[2])

\* C27: once Pass 1 has returned its map, the key of every row Pass 2 treats
\* as a valid wildlife row is in the map, no group of a flush is skipped as
\* 'taxon not found', and when Pass 2 has completed in a run without store
\* faults every (burst, taxon) pair of a buffered row has a sequence record.
C27_EveryPairGetsSequence ==
    /\ MapBuilt => ValidKeysMapped /\ NoTaxonSkipped
    /\ (pc = "done" /\ faults = 0) => EveryPairHasSequence(db)

(* ------------------- most specific rank of stored taxa ---------------- *)
\* the ranks whose column of a stored taxa row is not NULL
NonNullRanks(r) ==
    {n \in 1..NumLevels : r[TaxaColumn(TAXONOMY_COLUMNS[n])] # None}

\* most_specific_level and most_specific_name of a stored taxa row agree
\* with its rank columns
MostSpecificStored(r) ==
    LET ranks == NonNullRanks(r)
    IN  /\ (ranks = {}) <=> (r["most_specific_level"] = None)
        /\ (ranks = {}) <=> (r["most_specific_name"] = None)
        /\ ranks = {} => r["common_name"] # None
        /\ \A n \in ranks :
              (\A m \in ranks : m <= n) =>
                  /\ r["most_specific_level"] = LevelName(n)
                  /\ r["most_specific_name"]
                        = r[TaxaColumn(TAXONOMY_COLUMNS[n])]

\* C28: for every persisted taxon, most_specific_level names the non-null
\* rank column nearest to variety and most_specific_name is the value of
\* that column; both are null exactly when every rank column is null, and
\* then the taxon has a common name.
C28_StoredMostSpecificRank ==
    \A a \in 1..Len(db.taxa) : MostSpecificStored(db.taxa[a])

\* a taxon is persisted with every rank column null: it is identified by
\* its common name alone
C28_Witness ==
    /\ Len(db.taxa) = 1
    /\ NonNullRanks(db.taxa[1]) = {}
    /\ db.taxa[1]["common_name"] # None
    /\ \E c \in {"kingdom", "species", "subspecies"} : csv[1][c] # NaN

(* ------------------------------- C29 ---------------------------------- *)
\* the last call returned an error dict
ReturnedError == "error" \in DOMAIN last_result.value

\* what a submit_answer call does to a session with an unanswered question
ScoresCurrentQuestion ==
    /\ current_question' = current_question + 1
    /\ Len(question_results') = Len(question_results) + 1
    /\ SubSeq(question_results', 1, Len(question_results)) = question_results
    /\ LET added == question_results'[Len(question_results')]
           guess == last_result'.guess
       IN  /\ added.question_num = current_question + 1
           /\ added.taxon = taxa_list[current_question + 1]
           /\ added.guess = guess.name
           /\ added.points =
                 ScoreOf(taxa_list[current_question + 1], guess.taxon,
                         guess.name).points
           /\ total_score' = total_score + added.points
           /\ last_result'.value.points_earned = added.points
           /\ last_result'.value.total_score = total_score'
           /\ last_result'.value.current_question = current_question'
    /\ "error" \notin DOMAIN last_result'.value

\* C29: a submit_answer call on a session with an unanswered question
\* scores the current question, appends one result and advances
\* current_question by one; on a session whose questions are all answered
\* it returns an error and leaves current_question, total_score and
\* question_results as they were; and get_final_score returns an error
\* exactly while a question is unanswered.
C29_SubmitAnswerStep ==
    /\ [](last_result.call = "get_final_score" =>
            /\ ReturnedError <=> current_question < Len(taxa_list)
            /\ ~ReturnedError =>
                  /\ last_result.value.total_score = total_score
                  /\ last_result.value.questions_answered = Len(taxa_list)
                  /\ last_result.value.question_results = question_results)
    /\ [][last_result'.call = "submit_answer" =>
            IF current_question < Len(taxa_list)
            THEN ScoresCurrentQuestion
            ELSE /\ last_result'.value = [error |-> "No current question"]
                 /\ UNCHANGED <<current_question, total_score,
                                question_results>>]_vars

\* submit_answer was called on a session of two answered questions with a
\* score above zero, and returned its error
C29_Witness ==
    /\ last_result.call = "submit_answer"
    /\ ReturnedError
    /\ current_question = Len(taxa_list)
    /\ Len(question_results) = 2
    /\ total_score > question_results[2].points
    /\ question_results[2].points > 0

(* ------------------------------- C30 ---------------------------------- *)
\* the points of the recorded results, added up
RECURSIVE SumOfPoints(_)
SumOfPoints(results) ==
    IF results = <<>> THEN 0
    ELSE results[1].points + SumOfPoints(Tail(results))

\* no submit_guess request is inside submit_answer
NoRequestInFlight == \A r \in 1..MaxRequests : requests[r].pc = "idle"

\* C30: whenever no request is inside submit_answer, also after requests
\* for the session overlapped, current_question is the number of recorded
\* results and at most the number of questions, total_score is the sum of
\* the recorded points, and the recorded results are those of questions
\* 1..current_question in order, each question scored once.
C30_SessionConsistent ==
    NoRequestInFlight =>
        /\ current_question = Len(question_results)
        /\ current_question <= Len(taxa_list)
        /\ total_score = SumOfPoints(question_results)
        /\ \A k \in 1..Len(question_results) :
              /\ question_results[k].question_num = k
              /\ k <= Len(taxa_list)
              /\ question_results[k].taxon = taxa_list[k]

(* ------------------------------- C31 ---------------------------------- *)
\* the index, from 0, of a taxon of the session (its taxa are distinct)
QuestionOf(taxon) ==
    (CHOOSE k \in 1..Len(taxa_list) : taxa_list[k] = taxon) - 1

\* request 1 reads the cache in this step
ReadsFunFact ==
    /\ requests[1].pc = "fun_fact"
    /\ requests'[1].pc = "load_total"

\* request 1 returns the result of an answer in this step
ReturnsAnswer ==
    /\ requests[1].pc = "return"
    /\ requests'[1].pc = "idle"

\* C31: submit_answer never waits for the fetcher thread: a request that
\* entered it returns whatever the fetcher does, also when the fetcher never
\* runs again; the fact it attaches is what the cache slot of the question
\* being answered holds when it is read (None when the fetcher has stored
\* nothing or None there), a fact that arrives later is not attached, and
\* has_fun_fact is true exactly when a fact is attached; every cached fact
\* is the reply for the question of its slot; the fetcher fills the slot of
\* fun_fact_fetch_index only, one new slot above all the filled ones at a
\* time, and leaves current_question, total_score and question_results alone.
C31_SubmitNeverWaitsForFacts ==
    /\ (requests[1].pc # "idle") ~> (requests[1].pc = "idle")
    /\ [](\A k \in DOMAIN fun_facts_cache :
             /\ k < Len(taxa_list)
             /\ fun_facts_cache[k] \in get_fun_fact(taxa_list[k + 1]))
    /\ [][ReadsFunFact =>
             requests'[1].fun_fact =
                 Get(fun_facts_cache, QuestionOf(requests[1].taxon), None)]_vars
    /\ [][ReturnsAnswer =>
             /\ last_result'.value.fun_fact = requests[1].fun_fact
             /\ last_result'.value.has_fun_fact <=>
                    requests[1].fun_fact # None]_vars
    /\ [][fetcher' # fetcher =>
             /\ UNCHANGED <<current_question, total_score, question_results>>
             /\ \/ UNCHANGED fun_facts_cache
                \/ /\ DOMAIN fun_facts_cache' =
                          DOMAIN fun_facts_cache \cup {fun_fact_fetch_index}
                   /\ \A k \in DOMAIN fun_facts_cache :
                          /\ k < fun_fact_fetch_index
                          /\ fun_facts_cache'[k] = fun_facts_cache[k]]_vars
    /\ [][fun_facts_cache' # fun_facts_cache => fetcher' # fetcher]_vars

\* the answer to the first question was returned without a fact before the
\* fetcher had the fact of that question, which is in the cache now
C31_Witness ==
    /\ last_result.call = "submit_guess"
    /\ "has_fun_fact" \in DOMAIN last_result.value
    /\ ~last_result.value.has_fun_fact
    /\ current_question = 1
    /\ 0 \in DOMAIN fun_facts_cache
    /\ fun_facts_cache[0] =
           <<"f", "a", "c", "t", " ">> \o taxa_list[1].most_specific_name

(* ------------------------------- C32 ---------------------------------- *)
\* how often the hint generator was invoked for the taxon of a question
HintCallsFor(taxon) ==
    Cardinality({i \in 1..Len(hint_calls) : hint_calls[i] = taxon.id})

\* C32: the hint generator is invoked at most once for each question of the
\* session; a get_hint that finds the current question in the cache returns
\* the cached value and does not generate; and a get_hint that generated
\* stores what it returns, None included, under the question it generated
\* the hint for.
C32_HintGeneratedOnce ==
    /\ [](\A k \in 1..Len(taxa_list) : HintCallsFor(taxa_list[k]) <= 1)
    /\ [][(last_result' # last_result /\ last_result'.call = "get_hint"
              /\ last_result'.cached) =>
             /\ last_result'.value.hint = hints_cache[current_question]
             /\ UNCHANGED <<hints_cache, hint_calls>>]_vars
    /\ [][hints_cache' # hints_cache =>
             \E r \in 1..MaxRequests :
                 /\ hint_requests[r].pc = "store"
                 /\ hint_requests'[r].pc = "idle"
                 /\ last_result'.call = "get_hint"
                 /\ hints_cache' =
                        DictSet(hints_cache,
                                QuestionOf(hint_requests[r].taxon),
                                last_result'.value.hint)]_vars

(* ------------------------------- C33 ---------------------------------- *)
\* C33: the session store never holds more than SessionLimit + 1 sessions;
\* a request that finds more than SessionLimit sessions stored removes
\* sessions before its route runs; and whenever sessions are removed they
\* are the SessionsRemoved stored first, all created before every session
\* that is kept.
C33_SessionStoreBounded ==
    /\ [](Len(game_sessions) <= SessionLimit + 1)
    /\ [][\A r \in 1..MaxRequests :
             (/\ arrivals[r].pc = "before_request"
              /\ Len(game_sessions) > SessionLimit) =>
                 arrivals'[r].pc \in {"before_request", "cleanup"}]_vars
    /\ [][Len(game_sessions') < Len(game_sessions) =>
             /\ Len(game_sessions') = Len(game_sessions) - SessionsRemoved
             /\ game_sessions' =
                    SubSeq(game_sessions, SessionsRemoved + 1,
                           Len(game_sessions))
             /\ \A a \in 1..SessionsRemoved, b \in 1..Len(game_sessions') :
                    game_sessions[a] < game_sessions'[b]]_vars

(* ------------------------------- C35 ---------------------------------- *)
\* the rows ever added that the table does not hold
RowsNotHeld == scores_added (-) high_scores

\* C35: the high_scores table holds at most 10 rows, all of them rows that
\* were added, as many as were added while that is at most 10; no row that
\* was added and is not held comes before a row that is held in the order
\* of score descending, earlier game date first; and an add_score whose row
\* comes after all 10 rows held leaves the table as it was.
C35_TableHoldsTenBest ==
    /\ [](/\ BagCardinality(high_scores) <= 10
          /\ high_scores \sqsubseteq scores_added
          /\ BagCardinality(high_scores) =
                 Min(10, BagCardinality(scores_added))
          /\ \A held \in BagToSet(high_scores),
                dropped \in BagToSet(RowsNotHeld) : ~Before(dropped, held))
    /\ [][(/\ scores_added' # scores_added
           /\ BagCardinality(high_scores) = 10
           /\ \A held \in BagToSet(high_scores) :
                  Before(held, last_result'.row)) =>
             high_scores' = high_scores]_vars

\* the table is full, scores were dropped, and the second row of a score
\* of 10 added in a later second is held after the first
C35_Witness ==
    /\ BagCardinality(high_scores) = 10
    /\ BagCardinality(scores_added) = 11
    /\ BagIn([score |-> 10, game_date |-> 2], high_scores)
    /\ BagIn([score |-> 10, game_date |-> 0], high_scores)
    /\ BagIn([score |-> 3, game_date |-> 0], high_scores)
    /\ BagIn([score |-> 3, game_date |-> 1], RowsNotHeld)

(* ------------------------------- C34 ---------------------------------- *)
\* a save_high_score request is answered with success
SaveSucceeds ==
    /\ last_result' # last_result
    /\ last_result'.call = "save_high_score"
    /\ last_result'.status = 200

\* C34: the session contributes at most one row to the high scores; a row
\* is written only for a request with a non-empty player name whose session
\* is stored and complete; a save that succeeds leaves the session removed
\* from the store; and once the session's row is written no save request,
\* later or overlapping, writes another.
C34_SavedAtMostOnce ==
    /\ [](BagCardinality(scores_added) <= 1)
    /\ [][scores_added' # scores_added =>
             \E r \in 1..MaxRequests :
                 /\ save_requests[r].pc = "add_score"
                 /\ save_requests[r].player_name # <<>>
                 /\ save_requests[r].session_id \in StoredSessions
                 /\ is_complete(Session)
                 /\ scores_added' =
                        scores_added (+)
                            SetToBag({[score |-> total_score,
                                       game_date |-> game_date']})]_vars
    /\ [][SaveSucceeds => 1 \notin StoredSessions']_vars
    /\ [][scores_added # EmptyBag => scores_added' = scores_added]_vars

(* ------------------------------- C36 ---------------------------------- *)
\* the value a stored taxa row holds at a rank, the order in column order_
StoredRank(taxon, level) ==
    Get(taxon, IF level = "order" THEN "order_" ELSE level, None)

\* both taxa hold a value at the rank and the values are equal ignoring case
RanksAgree(correct_taxon, guess_taxon, level) ==
    LET correct == StoredRank(correct_taxon, level)
        guess == StoredRank(guess_taxon, level)
    IN  /\ correct # None /\ Strip(correct) # <<>>
        /\ guess # None /\ Strip(guess) # <<>>
        /\ Lower(Strip(correct)) = Lower(Strip(guess))

\* C36: calculate_score on two stored taxa awards the points of the first
\* rank, from variety down to kingdom, at which the two agree, and names
\* that rank; it awards 0 points and no level only when they agree at no
\* rank (two taxa that first agree at the order get 2 points at 'order').
C36_ScoreOfMostSpecificRank ==
    last_result.call = "calculate_score" =>
        LET agree == {n \in 1..Len(TAXONOMIC_HIERARCHY) :
                         RanksAgree(last_result.correct_taxon,
                                    last_result.guess_taxon,
                                    TAXONOMIC_HIERARCHY[n])}
        IN  IF agree = {}
            THEN last_result.value = [points |-> 0, matching_level |-> None]
            ELSE LET n == CHOOSE n \in agree : \A m \in agree : n <= m
                 IN  last_result.value =
                         [points |-> SCORE_VALUES[TAXONOMIC_HIERARCHY[n]],
                          matching_level |-> <<TAXONOMIC_HIERARCHY[n]>>]

(* ------------------------------- C37 ---------------------------------- *)
\* C37: for every valid row the taxon key computed from the taxon record
\* that Pass 1 materializes from it equals the taxon key of the row; every
\* record of taxa_dict is held under the key computed from the record; and
\* the id map, keyed from the records at insertion, has exactly the keys of
\* the valid rows, which are the keys Pass 2 looks up.
C37_KeyRoundTrip ==
    /\ \A i \in ValidRows : create_taxon_key(MakeTaxon(csv[i])) = RowKey(i)
    /\ \A k \in 1..Len(taxa_dict) :
           create_taxon_key(taxa_dict[k].taxon) = taxa_dict[k].key
    /\ MapBuilt => DOMAIN taxa_id_map = ValidKeys

\* the id map is built for a row whose kingdom and common name are sentinel
\* words, stored as null in the record, and whose species is stored trimmed
C37_Witness ==
    /\ pc = "pass2"
    /\ \E i \in ValidRows :
          /\ RowKey(i) \in DOMAIN taxa_id_map
          /\ csv[i].kingdom # NaN
          /\ csv[i].common_name # NaN
          /\ \E k \in 1..Len(taxa_dict) :
                /\ taxa_dict[k].taxon.kingdom = None
                /\ taxa_dict[k].taxon.common_name = None
                /\ taxa_dict[k].taxon.species # None
                /\ taxa_dict[k].taxon.species # csv[i].species

=============================================================================
